---- MODULE Spec2Model ----
(***************************************************************************)
(* The generation pipeline orchestrator of instagram-video-gen: the        *)
(* useGeneration hook (Session state, the cancellation handle abortRef,    *)
(* the asynchronous actions and the progress stream client connectSSE).    *)
(* Every await of the hook is a step boundary: an action called by the     *)
(* user runs up to its first await, and each pending call continues when   *)
(* its request or its stream read resolves.                                *)
(***************************************************************************)
EXTENDS Integers, Sequences, FiniteSets, TLC

\* Bounds of the model.
MaxTasks == 2      \* asynchronous hook calls in flight at the same time
MaxScenes == 2     \* scenes of a script
MaxCalls == 3      \* hook calls counted in a behaviour
MaxLines == 1      \* lines of the stream body that a read completes
MaxCuts == 3       \* scenes of a script and images of a set in the cuts review

\* A nullable value of the program: null is None, a value v is Some(v).
None == <<>>
Some(v) == <<v>>

\* ------------------------------------------------------------------ data
RunIds == {"r1"}
SceneIds == 1..MaxScenes
Texts == {"t1", "t2"}
Prompts == {"p1", "p2"}
Durations == {1, 2}

ScriptScene == [scene_id : SceneIds, text : Texts, image_prompt : Prompts,
                duration_sec : Durations]

\* Sequences of 1..MaxScenes scenes over the bodies B whose scene_ids are
\* pairwise different.
SceneSeqs(B) ==
    LET Recs == [scene_id : SceneIds, text : {b.text : b \in B},
                 image_prompt : {b.image_prompt : b \in B},
                 duration_sec : {b.duration_sec : b \in B}]
        Ok(r) == \E b \in B : /\ b.text = r.text
                              /\ b.image_prompt = r.image_prompt
                              /\ b.duration_sec = r.duration_sec
    IN  UNION { { ss \in [1..n -> {r \in Recs : Ok(r)}] :
                    \A i, j \in 1..n : i # j => ss[i].scene_id # ss[j].scene_id }
                : n \in 1..MaxScenes }

Body(t, p, d) == [text |-> t, image_prompt |-> p, duration_sec |-> d]

\* Every script of the data model within the bounds.
Scripts ==
    { [title |-> "T", scenes |-> ss] :
        ss \in SceneSeqs({Body(t, p, d) : t \in Texts, p \in Prompts, d \in Durations}) }

\* The script of n scenes numbered 1..n in narrative order, scene 1 with
\* text t and image_prompt p.
Numbered(n, t, p) ==
    [title |-> "T",
     scenes |-> [i \in 1..n |->
                    [scene_id |-> i, text |-> IF i = 1 THEN t ELSE "t1",
                     image_prompt |-> IF i = 1 THEN p ELSE "p1", duration_sec |-> 1]]]

\* Scripts as the script stage returns them.
ServerScripts == {Numbered(MaxScenes, "t1", "p1")}

\* The edited scripts handed to confirm in the pipeline specification: the
\* script unedited, or with the text or the image_prompt of scene 1 edited.
EditedScripts ==
    {Numbered(MaxScenes, b[1], b[2]) : b \in {<<"t1", "p1">>, <<"t2", "p1">>, <<"t1", "p2">>}}

CutImage(id, u) == [scene_id |-> id, imageUrl |-> u]
VideoClip(id, u) == [scene_id |-> id, videoUrl |-> u]
VoiceClip(id, u) == [scene_id |-> id, text |-> "t1", voiceUrl |-> u]

\* Artifact sets as a stage delivers them: one artifact per scene, of one
\* generation u.
ImageSets == { [i \in 1..MaxScenes |-> CutImage(i, u)] : u \in {"g2"} }
VideoSets == { [i \in 1..MaxScenes |-> VideoClip(i, u)] : u \in {"g1"} }
VoiceSets == { [i \in 1..MaxScenes |-> VoiceClip(i, u)] : u \in {"g1"} }
VideoUrls == {"final.mp4"}

INITIAL_STATE ==
    [phase |-> "idle", runId |-> None, script |-> None, originalScript |-> None,
     images |-> None, videos |-> None, voices |-> None, transitions |-> None,
     progress |-> None, videoUrl |-> None, error |-> None]

\* ----------------------------------------------------------------- state
VARIABLES
    state,      \* GenerationState, the Session
    abortRef,   \* abortRef.current: 0 is null, t the controller made by the
                \* call in slot t, Finished the controller of a connection
                \* that is closed, Abandoned the controller of a connection
                \* whose call has returned and left it open
    tasks,      \* the asynchronous hook calls in flight, by slot
    lastCall,   \* the hook function this step called and its argument, or
                \* "none" and the slot of the pending call it continued
    calls,      \* the number of hook calls so far, up to MaxCalls
    imageOrder, \* imageOrder of CutsPreview while the cuts specification
                \* has the panel on screen, the empty array otherwise
    scenes      \* scenes of ScriptPreview while the script specification
                \* has the panel on screen, the empty array otherwise

vars == <<state, abortRef, tasks, lastCall, calls, imageOrder, scenes>>

Slots == 1..MaxTasks
Finished == 0 - 1
Abandoned == 0 - 2

NoTask == [kind |-> "none", pc |-> "none", runId |-> "", edited |-> None,
           body |-> None, aborted |-> FALSE, buffer |-> None]
NoCall == [op |-> "none", arg |-> None]

NewTask(kind, runId, edited, body) ==
    [kind |-> kind, pc |-> "request", runId |-> runId, edited |-> edited,
     body |-> body, aborted |-> FALSE, buffer |-> None]

HasFree(ts) == \E t \in Slots : ts[t] = NoTask
FreeSlot(ts) == CHOOSE t \in Slots : ts[t] = NoTask /\ \A u \in Slots : ts[u] = NoTask => t <= u
Spawn(ts, task) == [ts EXCEPT ![FreeSlot(ts)] = task]

\* abortRef.current?.abort(): the fetch and the reads of the connection that
\* holds this controller reject with AbortError.
Abort(ts) == [t \in Slots |-> IF abortRef = t THEN [ts[t] EXCEPT !.aborted = TRUE] ELSE ts[t]]

\* The call in slot t has returned.
Ended(ts, t) == [ts EXCEPT ![t] = NoTask]
RefAfter(t) == IF abortRef = t THEN Finished ELSE abortRef

\* The call in slot t has returned from its read loop: connectSSE neither
\* cancels the reader nor aborts the controller.
RefAfterReturn(t) == IF abortRef = t THEN Abandoned ELSE abortRef

\* abortRef.current?.abort() closes the connection a returned call left open.
RefAfterAbort == IF abortRef = Abandoned THEN Finished ELSE abortRef

Init ==
    /\ state = INITIAL_STATE
    /\ abortRef = 0
    /\ tasks = [t \in Slots |-> NoTask]
    /\ lastCall = NoCall
    /\ calls = 0
    /\ imageOrder = <<>>
    /\ scenes = <<>>

\* ------------------------------------------------------------ diff engine
\* originalScenes.find(s => s.scene_id === id): the first scene with that id.
Find(originalScenes, id) ==
    IF \E i \in 1..Len(originalScenes) : originalScenes[i].scene_id = id
    THEN Some(originalScenes[CHOOSE i \in 1..Len(originalScenes) :
                        /\ originalScenes[i].scene_id = id
                        /\ \A j \in 1..Len(originalScenes) : originalScenes[j].scene_id = id => i <= j])
    ELSE None

\* !original || original.image_prompt !== edited.image_prompt
\* A diff that flags a scene on any edited field.
IsChangedAnyField(originalScenes, edited) ==
    LET original == Find(originalScenes, edited.scene_id)
    IN  original = None \/ original[1] # edited

IsChanged(originalScenes, edited) ==
    LET original == Find(originalScenes, edited.scene_id)
    IN  original = None \/ original[1].image_prompt # edited.image_prompt

\* The loop of confirm that collects changedSceneIds, in the order of the
\* edited scenes.
ChangedSceneIds(originalScript, editedScript) ==
    LET hit == SelectSeq(editedScript.scenes,
                         LAMBDA e : IsChanged(originalScript.scenes, e))
    IN  [i \in 1..Len(hit) |-> hit[i].scene_id]

\* ---------------------------------------------------------- hook actions
Called(op, arg) ==
    /\ lastCall' = [op |-> op, arg |-> arg]
    /\ calls' = IF calls < MaxCalls THEN calls + 1 ELSE calls
    /\ UNCHANGED <<imageOrder, scenes>>

\* A step that continues the pending call in slot t.
Resumed(t) ==
    /\ lastCall' = [op |-> "none", arg |-> Some(t)]
    /\ UNCHANGED <<calls, imageOrder, scenes>>

\* A faulty streamed action, against which the check of the runId is
\* tested: the request is issued whatever the runId.
StageStartUnchecked(kind, phase, edited, body) ==
    /\ HasFree(tasks)
    /\ state' = [state EXCEPT !.phase = phase, !.progress = None]
    /\ tasks' = Spawn(tasks, NewTask(kind, IF state.runId = None THEN "" ELSE state.runId[1],
                                     edited, body))
    /\ UNCHANGED abortRef

\* The shape shared by the streamed actions: return when there is no runId;
\* else show the in-progress phase and issue the stage-start request.
StageStart(kind, phase, edited, body) ==
    IF state.runId = None
    THEN UNCHANGED <<state, tasks, abortRef>>
    ELSE /\ HasFree(tasks)
         /\ state' = [state EXCEPT !.phase = phase, !.progress = None]
         /\ tasks' = Spawn(tasks, NewTask(kind, state.runId[1], edited, body))
         /\ UNCHANGED abortRef

start ==
    /\ Called("start", None)
    /\ HasFree(tasks)
    /\ state' = [INITIAL_STATE EXCEPT !.phase = "running"]
    /\ tasks' = Spawn(Abort(tasks), NewTask("start", "", None, None))
    /\ abortRef' = RefAfterAbort

\* A confirm that never takes the shortcut.
ConfirmShortcutNever(editedScript) == FALSE

\* The no-change shortcut of confirm: with a baseline and images, an edited
\* script with no changed scene goes to cuts_review with no request.
ConfirmShortcut(editedScript) ==
    /\ state.originalScript # None
    /\ state.images # None
    /\ ChangedSceneIds(state.originalScript[1], editedScript) = <<>>

\* A faulty request body, against which the first-time path is tested: the
\* ids of all edited scenes are sent as changed when the diff is skipped.
ConfirmBodyAlwaysIds(editedScript) ==
    [script |-> editedScript,
     changed_scene_ids |->
        IF state.originalScript # None /\ state.images # None
        THEN Some(ChangedSceneIds(state.originalScript[1], editedScript))
        ELSE Some([i \in 1..Len(editedScript.scenes) |-> editedScript.scenes[i].scene_id])]

\* The body of the image-stage request of confirm.
ConfirmBody(editedScript) ==
    [script |-> editedScript,
     changed_scene_ids |->
        IF state.originalScript # None /\ state.images # None
        THEN Some(ChangedSceneIds(state.originalScript[1], editedScript))
        ELSE None]

confirm(editedScript) ==
    /\ Called("confirm", Some(editedScript))
    /\ IF state.runId # None /\ ConfirmShortcut(editedScript)
       THEN /\ state' = [state EXCEPT !.phase = "cuts_review",
                                      !.script = Some(editedScript),
                                      !.progress = None]
            /\ UNCHANGED <<tasks, abortRef>>
       ELSE StageStart("confirm", "running", Some(editedScript),
                       Some(ConfirmBody(editedScript)))

compose(sceneOrder) ==
    /\ Called("compose", Some(sceneOrder))
    /\ StageStart("compose", "composing", None, Some([scene_order |-> sceneOrder]))

generateVoices ==
    /\ Called("generateVoices", None)
    /\ StageStart("generateVoices", "composing", None, None)

regenerateImage(sceneInstructions) ==
    /\ Called("regenerateImage", Some(sceneInstructions))
    /\ StageStart("regenerateImage", "running", None,
                  Some([scene_instructions |-> sceneInstructions]))

regenerateVideo(sceneInstructions) ==
    /\ Called("regenerateVideo", Some(sceneInstructions))
    /\ StageStart("regenerateVideo", "composing", None,
                  Some([scene_instructions |-> sceneInstructions]))

regenerateVoices(data) ==
    /\ Called("regenerateVoices", Some(data))
    /\ StageStart("regenerateVoices", "composing", None, Some(data))

goToTransitionEdit ==
    /\ Called("goToTransitionEdit", None)
    /\ state' = [state EXCEPT !.phase = "transition_edit"]
    /\ UNCHANGED <<tasks, abortRef>>

finalize(transitions, telop) ==
    /\ Called("finalize", Some(transitions))
    /\ IF state.runId = None
       THEN UNCHANGED <<state, tasks, abortRef>>
       ELSE /\ HasFree(tasks)
            /\ state' = [state EXCEPT
                            !.phase = "finalizing",
                            !.progress = None,
                            !.transitions = IF transitions # None THEN transitions
                                            ELSE state.transitions]
            /\ tasks' = Spawn(tasks,
                    NewTask("finalize", state.runId[1], None,
                            Some([transitions |-> IF transitions # None THEN transitions
                                                  ELSE state.transitions,
                                  telop |-> telop])))
            /\ UNCHANGED abortRef

ResetState == INITIAL_STATE

reset ==
    /\ Called("reset", None)
    /\ tasks' = Abort(tasks)
    /\ state' = ResetState
    /\ abortRef' = RefAfterAbort

\* A go-to action that first cancels the open stream.
GoTo(op) ==
    /\ Called(op, None)
    /\ tasks' = Abort(tasks)
    /\ abortRef' = RefAfterAbort

\* A return to script_review that drops the baseline.
BaselineOnReturnNull(s) == None

\* originalScript: s.images ? (s.originalScript || s.script) : null
BaselineOnReturn(s) ==
    IF s.images # None
    THEN (IF s.originalScript # None THEN s.originalScript ELSE s.script)
    ELSE None

\* A return to script_review that discards the images.
ToScriptReviewDroppingImages(s) ==
    [s EXCEPT !.phase = "script_review", !.progress = None, !.images = None,
              !.originalScript = None]

\* The state updater of goToScriptReview.
ToScriptReview(s) ==
    [s EXCEPT !.phase = "script_review",
              !.progress = None,
              !.originalScript = BaselineOnReturn(s)]

goToScriptReview ==
    /\ GoTo("goToScriptReview")
    /\ state' = ToScriptReview(state)

goToCutsReview ==
    /\ GoTo("goToCutsReview")
    /\ state' = [state EXCEPT !.phase = "cuts_review", !.progress = None]

goToVoicesReview ==
    /\ GoTo("goToVoicesReview")
    /\ state' = [state EXCEPT !.phase = "voices_review", !.progress = None]

goToVideosReview ==
    /\ GoTo("goToVideosReview")
    /\ state' = [state EXCEPT !.phase = "videos_review", !.progress = None]

restoreFromHistory(runId) ==
    /\ Called("restoreFromHistory", Some(runId))
    /\ HasFree(tasks)
    /\ state' = [INITIAL_STATE EXCEPT !.phase = "running"]
    /\ tasks' = Spawn(tasks, NewTask("restore", runId, None, None))
    /\ UNCHANGED abortRef

\* ------------------------------------------------- requests and responses
Streamed == {"confirm", "compose", "generateVoices", "regenerateImage",
             "regenerateVideo", "regenerateVoices", "finalize"}

\* Messages of a failed request; "" is an error without a message.
Failures == {"API error: 500", ""}

\* A faulty message, against which the fallback of an error without detail
\* is tested: the message is stored as it is.
ErrorTextAsIs(message, fallback) == message

\* err.message || "Unknown error"
ErrorText(message, fallback) == IF message = "" THEN fallback ELSE message

\* A faulty catch block, against which the report of a failed request is
\* tested: every error returns silently.
CatchSilently(aborted, message, fallback) == state

\* A faulty catch block, against which the message of phase error is
\* tested: the phase is set and the message is not.
CatchWithoutMessage(aborted, message, fallback) ==
    IF aborted THEN state ELSE [state EXCEPT !.phase = "error"]

\* A faulty catch block, against which the frame of a failure is tested:
\* the script is dropped with the failure.
CatchDroppingScript(aborted, message, fallback) ==
    IF aborted THEN state
    ELSE [state EXCEPT !.phase = "error", !.error = Some(ErrorText(message, fallback)),
                       !.script = None]

\* The catch block of an action: an AbortError returns silently, any other
\* error moves the Session to error.
Catch(aborted, message, fallback) ==
    IF aborted THEN state
    ELSE [state EXCEPT !.phase = "error", !.error = Some(ErrorText(message, fallback))]

\* The request of the call in slot t fails (non-success acknowledgement or
\* connection failure); a stage-start request carries no abort signal.
fetchFailed(t, message) ==
    /\ tasks[t].pc = "request"
    /\ state' = Catch(FALSE, message,
                      IF tasks[t].kind = "restore" THEN "restore failed" ELSE "Unknown error")
    /\ tasks' = Ended(tasks, t)
    /\ UNCHANGED abortRef
    /\ Resumed(t)

\* start: the script request succeeds.
startResponse(t, run_id, script) ==
    /\ tasks[t].pc = "request"
    /\ tasks[t].kind = "start"
    /\ state' = [state EXCEPT !.phase = "script_review",
                              !.runId = Some(run_id),
                              !.script = Some(script)]
    /\ tasks' = Ended(tasks, t)
    /\ UNCHANGED abortRef
    /\ Resumed(t)

\* Whether an artifact array of a restored bundle is present and non-empty.
Present(a) == a # None /\ Len(a[1]) > 0

\* The phase restoreFromHistory derives from the bundle; complete by default.
RestoredPhase(data) ==
    IF data.videoUrl # None THEN "complete"
    ELSE IF Present(data.voices) THEN "voices_review"
    ELSE IF Present(data.videos) THEN "videos_review"
    ELSE IF Present(data.images) THEN "cuts_review"
    ELSE IF data.script # None THEN "script_review"
    ELSE "complete"

\* A faulty restore, against which the tie of the baseline to the images is
\* tested: the restored script is the baseline whether images exist or not.
RestoredStateAlwaysBaseline(data) ==
    [INITIAL_STATE EXCEPT
        !.runId = Some(data.run_id),
        !.script = data.script,
        !.originalScript = data.script,
        !.images = data.images,
        !.videos = data.videos,
        !.voices = data.voices,
        !.videoUrl = data.videoUrl,
        !.phase = RestoredPhase(data)]

\* A faulty restore, against which the run of a restored Session is tested:
\* the run_id of the bundle is not stored.
RestoredStateWithoutRun(data) ==
    [INITIAL_STATE EXCEPT
        !.script = data.script,
        !.originalScript = IF data.images # None THEN data.script ELSE None,
        !.images = data.images,
        !.videos = data.videos,
        !.voices = data.voices,
        !.videoUrl = data.videoUrl,
        !.phase = RestoredPhase(data)]

RestoredState(data) ==
    [INITIAL_STATE EXCEPT
        !.runId = Some(data.run_id),
        !.script = data.script,
        !.originalScript = IF data.images # None THEN data.script ELSE None,
        !.images = data.images,
        !.videos = data.videos,
        !.voices = data.voices,
        !.videoUrl = data.videoUrl,
        !.phase = RestoredPhase(data)]

\* restoreFromHistory: the restore request succeeds.
restoreResponse(t, data) ==
    /\ tasks[t].pc = "request"
    /\ tasks[t].kind = "restore"
    /\ data.run_id = tasks[t].runId
    /\ state' = RestoredState(data)
    /\ tasks' = Ended(tasks, t)
    /\ UNCHANGED abortRef
    /\ Resumed(t)

\* --------------------------------------------------- progress stream client
\* The stage-start request is acknowledged and the action calls connectSSE,
\* which makes a new controller, stores it in abortRef and requests the stream.
Controller(t) ==
    [tasks EXCEPT ![t] = [@ EXCEPT !.pc = "connect",
                                   !.body = IF tasks[t].kind \in {"regenerateImage", "regenerateVideo"}
                                            THEN tasks[t].body ELSE None]]

connectSSE(t) ==
    /\ tasks[t].pc = "request"
    /\ tasks[t].kind \in Streamed
    /\ tasks' = Controller(t)
    /\ abortRef' = t
    /\ UNCHANGED state
    /\ Resumed(t)

\* The stream request is answered with a readable body.
streamOpened(t) ==
    /\ tasks[t].pc = "connect"
    /\ ~tasks[t].aborted
    /\ tasks' = [tasks EXCEPT ![t].pc = "read"]
    /\ UNCHANGED <<state, abortRef>>
    /\ Resumed(t)

\* The stream request fails or is refused, or a read fails.
streamThrows(t, message) ==
    /\ tasks[t].pc \in {"connect", "read"}
    /\ ~tasks[t].aborted
    /\ state' = Catch(FALSE, message, "Unknown error")
    /\ tasks' = Ended(tasks, t)
    /\ abortRef' = RefAfter(t)
    /\ Resumed(t)

\* The controller of the connection was aborted: the pending fetch or read
\* rejects with AbortError.
streamAborted(t) ==
    /\ tasks[t].pc \in {"connect", "read"}
    /\ tasks[t].aborted
    /\ state' = Catch(TRUE, "The operation was aborted", "Unknown error")
    /\ tasks' = Ended(tasks, t)
    /\ abortRef' = RefAfter(t)
    /\ Resumed(t)

\* The server closes the stream: the read loop breaks and the action returns.
\* A faulty end of stream, against which the silence of a closed stream is
\* tested: the close is reported as an error.
streamClosedAsError(t) ==
    /\ tasks[t].pc = "read"
    /\ ~tasks[t].aborted
    /\ tasks' = Ended(tasks, t)
    /\ abortRef' = RefAfter(t)
    /\ state' = Catch(FALSE, "", "Unknown error")
    /\ Resumed(t)

streamClosed(t) ==
    /\ tasks[t].pc = "read"
    /\ ~tasks[t].aborted
    /\ tasks' = Ended(tasks, t)
    /\ abortRef' = RefAfter(t)
    /\ UNCHANGED state
    /\ Resumed(t)

Record(status, videoUrl, images, videos, voices, detail) ==
    [status |-> status, videoUrl |-> videoUrl, images |-> images,
     videos |-> videos, voices |-> voices, detail |-> detail]

\* The decoded records a stream may carry; "" is an absent field.
Records ==
    {Record("complete", u, <<>>, <<>>, <<>>, "") : u \in VideoUrls \cup {""}}
    \cup {Record("images_ready", "", i, <<>>, <<>>, "") : i \in ImageSets}
    \cup {Record("videos_ready", "", <<>>, v, <<>>, "") : v \in VideoSets}
    \cup {Record("voices_ready", "", <<>>, <<>>, v, "") : v \in VoiceSets}
    \cup {Record("error", "", <<>>, <<>>, <<>>, d) : d \in {"", "quota exceeded"}}
    \cup {Record("running", "", <<>>, <<>>, <<>>, "step")}

\* The callbacks the streamed actions hand to connectSSE.
\* A faulty images callback, against which the replacement of the baseline
\* is tested: confirm stores the images and leaves the baseline as it was.
onImagesReadyKeepingBaseline(s, task, images) ==
    IF task.kind = "confirm"
    THEN [s EXCEPT !.phase = "cuts_review", !.script = task.edited,
                   !.images = Some(images), !.progress = None]
    ELSE [s EXCEPT !.phase = "cuts_review", !.images = Some(images), !.progress = None]

\* A faulty images callback, against which the replacement of regenerated
\* images is tested: the delivered images are dropped.
onImagesReadyKeepingOld(s, task, images) ==
    [s EXCEPT !.phase = "cuts_review", !.progress = None]

\* A faulty images callback, against which the keeping of the downstream
\* artifacts is tested: new images discard videos, voices and final video.
onImagesReadyClearingDownstream(s, task, images) ==
    IF task.kind = "confirm"
    THEN [s EXCEPT !.phase = "cuts_review", !.script = task.edited,
                   !.originalScript = task.edited, !.images = Some(images),
                   !.progress = None, !.videos = None, !.voices = None,
                   !.videoUrl = None]
    ELSE [s EXCEPT !.phase = "cuts_review", !.images = Some(images), !.progress = None,
                   !.videos = None, !.voices = None, !.videoUrl = None]

onImagesReady(s, task, images) ==
    IF task.kind = "confirm"
    THEN [s EXCEPT !.phase = "cuts_review", !.script = task.edited,
                   !.originalScript = task.edited, !.images = Some(images),
                   !.progress = None]
    ELSE [s EXCEPT !.phase = "cuts_review", !.images = Some(images), !.progress = None]

\* A faulty videos callback, against which the end of the in-progress
\* phases is tested: the videos are stored and the phase is left as it was.
onVideosReadyStayingComposing(s, task, videos) ==
    [s EXCEPT !.videos = Some(videos), !.progress = None]

onVideosReady(s, task, videos) ==
    [s EXCEPT !.phase = "videos_review", !.videos = Some(videos), !.progress = None]

\* A faulty voices callback, against which the replacement of the voices is
\* tested: the delivered set is dropped.
onVoicesReadyKeepingOld(s, task, voices) ==
    [s EXCEPT !.phase = "voices_review", !.progress = None]

\* A faulty voices callback, against which the order of the phases is
\* tested: the voices review is skipped.
onVoicesReadySkippingReview(s, task, voices) ==
    [s EXCEPT !.phase = "transition_edit", !.voices = Some(voices), !.progress = None]

onVoicesReady(s, task, voices) ==
    [s EXCEPT !.phase = "voices_review", !.voices = Some(voices), !.progress = None]

\* data as ProgressEvent: the fields of the record the progress display reads.
ProgressEvent(data) == [status |-> data.status, detail |-> data.detail]

\* What connectSSE does with one decoded record: the new Session and whether
\* the record ends the connection.
Dispatch(s, task, data) ==
    IF data.status = "complete" /\ data.videoUrl # ""
    THEN [state |-> [s EXCEPT !.phase = "complete", !.videoUrl = Some(data.videoUrl),
                              !.progress = None],
          return |-> TRUE]
    ELSE IF data.status = "images_ready" /\ task.kind \in {"confirm", "regenerateImage"}
    THEN [state |-> onImagesReady(s, task, data.images), return |-> TRUE]
    ELSE IF data.status = "videos_ready" /\ task.kind \in {"compose", "regenerateVideo"}
    THEN [state |-> onVideosReady(s, task, data.videos), return |-> TRUE]
    ELSE IF data.status = "voices_ready" /\ task.kind \in {"generateVoices", "regenerateVoices"}
    THEN [state |-> onVoicesReady(s, task, data.voices), return |-> TRUE]
    ELSE IF data.status = "error"
    THEN [state |-> [s EXCEPT !.phase = "error",
                              !.error = Some(ErrorText(data.detail, "Unknown error"))],
          return |-> TRUE]
    ELSE [state |-> [s EXCEPT !.progress = Some(ProgressEvent(data))], return |-> FALSE]

\* A read delivers one whole data line, which is decoded and handled.
onRecord(t, data) ==
    /\ tasks[t].pc = "read"
    /\ ~tasks[t].aborted
    /\ LET r == Dispatch(state, tasks[t], data)
       IN  /\ state' = r.state
           /\ tasks' = IF r.return THEN Ended(tasks, t) ELSE tasks
           /\ abortRef' = IF r.return THEN RefAfterReturn(t) ELSE abortRef
    /\ Resumed(t)

\* A line of the stream body: whether it starts with "data:", whether what
\* follows the prefix is blank after trim(), and what JSON.parse makes of it
\* (None when it throws).
Line(data, blank, json) == [data |-> data, blank |-> blank, json |-> json]

\* The lines a stream may carry: a comment or keepalive line, a line of
\* another field that holds a record, a data line with nothing after the
\* prefix, a data line that is not JSON, and the data lines of the records.
StreamLines ==
    {Line(FALSE, FALSE, None), Line(TRUE, TRUE, None), Line(TRUE, FALSE, None)}
    \cup {Line(FALSE, FALSE, Some(Record("error", "", <<>>, <<>>, <<>>, "quota exceeded")))}
    \cup {Line(TRUE, FALSE, Some(d)) : d \in Records}

\* A faulty for loop, against which the properties of skipped lines are
\* tested: a data line that does not parse is reported as an error.
RECURSIVE HandleLinesStrict(_, _, _)
HandleLinesStrict(s, task, lines) ==
    IF lines = <<>> THEN [state |-> s, return |-> FALSE]
    ELSE LET line == Head(lines)
         IN  IF ~line.data \/ line.blank
             THEN HandleLinesStrict(s, task, Tail(lines))
             ELSE IF line.json = None
             THEN [state |-> [s EXCEPT !.phase = "error", !.error = Some("Unknown error")],
                   return |-> TRUE]
             ELSE LET r == Dispatch(s, task, line.json[1])
                  IN  IF r.return THEN r ELSE HandleLinesStrict(r.state, task, Tail(lines))

\* The for loop of connectSSE over the complete lines of the buffer: a line
\* that is no data line, is blank or does not parse is skipped, and the loop
\* returns at the first record that ends the connection.
RECURSIVE HandleLines(_, _, _)
HandleLines(s, task, lines) ==
    IF lines = <<>> THEN [state |-> s, return |-> FALSE]
    ELSE LET line == Head(lines)
         IN  IF ~line.data \/ line.blank \/ line.json = None
             THEN HandleLines(s, task, Tail(lines))
             ELSE LET r == Dispatch(s, task, line.json[1])
                  IN  IF r.return THEN r ELSE HandleLines(r.state, task, Tail(lines))

\* The bodies a read may deliver: up to MaxLines lines, the last of them
\* still without its newline when cut.
Chunks == [lines : UNION {[1..n -> StreamLines] : n \in 0..MaxLines}, cut : BOOLEAN]

\* The lines of the buffer after a read: the line kept from the read before,
\* then the lines of this read.
Buffered(task, chunk) ==
    (IF task.buffer = None THEN <<>> ELSE <<task.buffer[1]>>) \o chunk.lines

\* buffer.split("\n") and lines.pop(): the lines handled now and the line
\* kept for the next read.
Complete(task, chunk) ==
    LET all == Buffered(task, chunk)
    IN  IF chunk.cut /\ all # <<>> THEN SubSeq(all, 1, Len(all) - 1) ELSE all

Kept(task, chunk) ==
    LET all == Buffered(task, chunk)
    IN  IF chunk.cut /\ all # <<>> THEN Some(all[Len(all)]) ELSE None

\* One read of the stream body resolves with a chunk.
onChunk(t, chunk) ==
    /\ tasks[t].pc = "read"
    /\ ~tasks[t].aborted
    /\ LET r == HandleLines(state, tasks[t], Complete(tasks[t], chunk))
       IN  /\ state' = r.state
           /\ tasks' = IF r.return THEN Ended(tasks, t)
                       ELSE [tasks EXCEPT ![t].buffer = Kept(tasks[t], chunk)]
           /\ abortRef' = IF r.return THEN RefAfterReturn(t) ELSE abortRef
    /\ lastCall' = [op |-> "read", arg |-> Some(<<t, chunk>>)]
    /\ UNCHANGED <<calls, imageOrder, scenes>>

\* The server ends the response of a connection that a returned call left
\* open.
leftOpenClosed ==
    /\ abortRef = Abandoned
    /\ abortRef' = Finished
    /\ lastCall' = NoCall
    /\ UNCHANGED <<state, tasks, calls, imageOrder, scenes>>

\* ------------------------------------------------------------ specification
Orders == {[i \in 1..MaxScenes |-> i]}
Instructions == {[id \in {1} |-> "brighter"]}
VoiceEdits == {[texts |-> "edited", speed |-> 1]}
TransitionSets == {[i \in 1..(MaxScenes - 1) |-> [audioGap |-> 3]]}
Telops == {None}

Optional(S) == {None} \cup {Some(x) : x \in S}

RestoredImages == {[i \in 1..MaxScenes |-> CutImage(i, "g1")]}

\* The persisted bundles of a run: what the pipeline had produced when the
\* run was stored, stage by stage.
Bundle(r, k) ==
    [run_id |-> r,
     script |-> IF k >= 1 THEN Some(CHOOSE sc \in ServerScripts : TRUE) ELSE None,
     images |-> IF k >= 2 THEN Some(CHOOSE i \in RestoredImages : TRUE) ELSE None,
     videos |-> IF k >= 3 THEN Some(CHOOSE v \in VideoSets : TRUE) ELSE None,
     voices |-> IF k >= 4 THEN Some(CHOOSE v \in VoiceSets : TRUE) ELSE None,
     videoUrl |-> IF k >= 5 THEN Some(CHOOSE u \in VideoUrls : TRUE) ELSE None]

\* What the restore request may return: a run with any of its artifacts,
\* the images possibly an empty array.
Bundles ==
    [run_id : RunIds, script : Optional(ServerScripts),
     images : Optional(RestoredImages \cup {<<>>}), videos : Optional(VideoSets),
     voices : Optional(VoiceSets), videoUrl : Optional(VideoUrls)]

\* The budget of hook calls of a behaviour.
Budget == calls < MaxCalls

\* The functions the hook returns, called with any argument at any time, and
\* the continuations of the pending calls.
Next ==
    \/ Budget /\ start
    \/ Budget /\ \E e \in EditedScripts : confirm(e)
    \/ Budget /\ \E o \in Orders : compose(o)
    \/ Budget /\ generateVoices
    \/ Budget /\ \E i \in Instructions : regenerateImage(i)
    \/ Budget /\ \E i \in Instructions : regenerateVideo(i)
    \/ Budget /\ \E d \in VoiceEdits : regenerateVoices(d)
    \/ Budget /\ goToTransitionEdit
    \/ Budget /\ \E tr \in Optional(TransitionSets), tl \in Telops : finalize(tr, tl)
    \/ Budget /\ reset
    \/ Budget /\ goToScriptReview
    \/ Budget /\ goToCutsReview
    \/ Budget /\ goToVideosReview
    \/ Budget /\ goToVoicesReview
    \/ Budget /\ \E r \in RunIds : restoreFromHistory(r)
    \/ \E t \in Slots, m \in Failures : fetchFailed(t, m)
    \/ \E t \in Slots, r \in RunIds, sc \in ServerScripts : startResponse(t, r, sc)
    \/ \E t \in Slots, d \in Bundles : restoreResponse(t, d)
    \/ \E t \in Slots : connectSSE(t)
    \/ \E t \in Slots : streamOpened(t)
    \/ \E t \in Slots, m \in Failures : streamThrows(t, m)
    \/ \E t \in Slots : streamAborted(t)
    \/ \E t \in Slots : streamClosed(t)
    \/ \E t \in Slots, d \in Records : onRecord(t, d)
    \/ leftOpenClosed

Spec == Init /\ [][Next]_vars

\* ------------------------------------------------------------------ page
\* What the page (Home and its panels) lets the user do in each phase.
SceneIdsOf(script) == {script.scenes[i].scene_id : i \in 1..Len(script.scenes)}
ArtifactIds(a) == {a[i].scene_id : i \in 1..Len(a)}

\* ScriptPreview: the scenes of the shown script with text or image_prompt
\* edited; scene_ids and the number of scenes stay.
PageEdits(script) ==
    { [title |-> script.title, scenes |-> ss] :
        ss \in { x \in [1..Len(script.scenes) ->
                          [scene_id : SceneIdsOf(script), text : Texts,
                           image_prompt : Prompts, duration_sec : {1}]] :
                 \A i \in 1..Len(script.scenes) :
                    /\ x[i].scene_id = script.scenes[i].scene_id
                    /\ ~(x[i].text = "t2" /\ x[i].image_prompt = "p2") } }

\* CutsPreview: imageOrder starts as the scene_ids of the images and is
\* changed by swaps only.
PageOrders(images) ==
    { o \in [1..Len(images) -> ArtifactIds(images)] :
        \A i, j \in 1..Len(images) : i # j => o[i] # o[j] }

\* CutsPreview and VideosPreview: the selected scenes, at least one.
PageInstructions(ids) == {[id \in S |-> "brighter"] : S \in (SUBSET ids) \ {{}}}

\* A faulty editor, against which the number of settings is tested: one
\* setting per scene.
PageTransitionsPerScene(script) == Some([i \in 1..Len(script.scenes) |-> [audioGap |-> 3]])

\* TransitionEditor: sceneCount - 1 settings.
PageTransitions(script) == Some([i \in 1..(Len(script.scenes) - 1) |-> [audioGap |-> 3]])

\* The panel Home renders in each phase.
ScriptPreview == state.phase = "script_review" /\ state.script # None
CutsPreview == state.phase = "cuts_review" /\ state.script # None /\ state.images # None
VideosPreview == state.phase = "videos_review" /\ state.videos # None
VoicesPreview == state.phase = "voices_review" /\ state.voices # None
TransitionEditor == state.phase = "transition_edit" /\ state.script # None
VideoPreview == state.phase = "complete" /\ state.videoUrl # None
ErrorPanel == state.phase = "error"

\* The buttons of the page and the continuations of the pending calls. No
\* panel is rendered while a call is pending, so no connection is ever
\* aborted while it is open: streamAborted has no step here.
PageNext ==
    \/ state.phase = "idle" /\ start
    \/ state.phase = "idle" /\ \E r \in RunIds : restoreFromHistory(r)
    \/ ScriptPreview /\ \E e \in PageEdits(state.script[1]) : confirm(e)
    \/ CutsPreview /\ \E o \in PageOrders(state.images[1]) : compose(o)
    \/ CutsPreview /\ \E i \in PageInstructions(SceneIdsOf(state.script[1])) : regenerateImage(i)
    \/ VideosPreview /\ generateVoices
    \/ VideosPreview /\ \E i \in PageInstructions(ArtifactIds(state.videos[1])) : regenerateVideo(i)
    \/ VoicesPreview /\ goToTransitionEdit
    \/ VoicesPreview /\ \E d \in VoiceEdits : regenerateVoices(d)
    \/ TransitionEditor /\ \E tl \in {None, Some("telop")} :
                                finalize(PageTransitions(state.script[1]), tl)
    \/ TransitionEditor /\ goToVoicesReview
    \/ VideoPreview /\ state.script # None /\ goToScriptReview
    \/ VideoPreview /\ state.images # None /\ goToCutsReview
    \/ VideoPreview /\ state.videos # None /\ goToVideosReview
    \/ VideoPreview /\ state.voices # None /\ goToVoicesReview
    \/ VideoPreview /\ state.script # None /\ goToTransitionEdit
    \/ /\ \/ ScriptPreview \/ CutsPreview \/ VideosPreview \/ VoicesPreview
          \/ TransitionEditor \/ VideoPreview \/ ErrorPanel
       /\ reset
    \/ \E t \in Slots, m \in Failures : fetchFailed(t, m)
    \/ \E t \in Slots, r \in RunIds, sc \in ServerScripts : startResponse(t, r, sc)
    \/ \E t \in Slots, d \in Bundles : restoreResponse(t, d)
    \/ \E t \in Slots : connectSSE(t)
    \/ \E t \in Slots : streamOpened(t)
    \/ \E t \in Slots, m \in Failures : streamThrows(t, m)
    \/ \E t \in Slots : streamClosed(t)
    \/ \E t \in Slots, d \in Records : onRecord(t, d)
    \/ leftOpenClosed

PageSpec == Init /\ [][PageNext]_vars

\* ------------------------------------------- restored runs and the diff
\* The bodies a scene of a confirmed script may have: the baseline body, and
\* the body with its text, its duration_sec or its image_prompt edited.
DiffBodies == {Body("t1", "p1", 1), Body("t2", "p1", 1), Body("t1", "p1", 2),
               Body("t1", "p2", 1)}

DiffScripts == { [title |-> "T", scenes |-> ss] : ss \in SceneSeqs(DiffBodies) }

\* The scripts of the restored runs: any scenes in any order, of either
\* image_prompt.
DiffBaselines ==
    { [title |-> "T", scenes |-> ss] :
        ss \in SceneSeqs({Body("t1", "p1", 1), Body("t1", "p2", 1)}) }

\* The bundles of the restored runs: stored at stage k, with or without a
\* script.
DiffBundles ==
    { [Bundle(r, k) EXCEPT !.script = sc] :
        r \in RunIds, k \in 1..5, sc \in Optional(DiffBaselines) }

\* A Session as restoreFromHistory leaves it.
DiffInit ==
    /\ \E d \in DiffBundles : state = RestoredState(d)
    /\ abortRef = 0
    /\ tasks = [t \in Slots |-> NoTask]
    /\ lastCall = NoCall
    /\ calls = 0
    /\ imageOrder = <<>>
    /\ scenes = <<>>

\* goToScriptReview is called any number of times and then confirm once, with
\* any script.
DiffNext ==
    \/ Budget /\ lastCall.op # "confirm" /\ goToScriptReview
    \/ Budget /\ lastCall.op # "confirm" /\ \E e \in DiffScripts : confirm(e)

DiffSpec == DiffInit /\ [][DiffNext]_vars

\* ---------------------------------------------------------- stream reads
\* The in-progress phase each streamed action shows, and the stage of the
\* pipeline at which the page offers it.
InProgress ==
    [confirm |-> "running", compose |-> "composing", generateVoices |-> "composing",
     regenerateImage |-> "running", regenerateVideo |-> "composing",
     regenerateVoices |-> "composing", finalize |-> "finalizing"]

OfferedAt ==
    [confirm |-> 1, compose |-> 2, regenerateImage |-> 2, regenerateVideo |-> 3,
     generateVoices |-> 3, regenerateVoices |-> 4, finalize |-> 4]

\* The Session of a run restored at stage k once the streamed action has shown
\* its in-progress phase.
Streaming(kind, k) ==
    [RestoredState(Bundle(CHOOSE r \in RunIds : TRUE, k)) EXCEPT
        !.phase = InProgress[kind],
        !.transitions = IF kind = "finalize"
                        THEN Some(CHOOSE tr \in TransitionSets : TRUE) ELSE None]

\* A streamed action, called where the page offers it on a run restored at
\* that stage or restored complete, is reading its stream.
StreamInit ==
    /\ \E kind \in Streamed, e \in EditedScripts :
         \E k \in {OfferedAt[kind], 5} :
            /\ state = Streaming(kind, k)
            /\ tasks = [t \in Slots |->
                          IF t = 1
                          THEN [NewTask(kind, state.runId[1],
                                        IF kind = "confirm" THEN Some(e) ELSE None, None)
                                  EXCEPT !.pc = "read"]
                          ELSE NoTask]
    /\ abortRef = 1
    /\ lastCall = NoCall
    /\ calls = 0
    /\ imageOrder = <<>>
    /\ scenes = <<>>

\* The reads of the stream resolve, chunk by chunk, until the call returns.
StreamNext ==
    \/ \E t \in Slots, c \in Chunks : onChunk(t, c)
    \/ \E t \in Slots : streamClosed(t)
    \/ \E t \in Slots, m \in Failures : streamThrows(t, m)
    \/ leftOpenClosed

StreamSpec == StreamInit /\ [][StreamNext]_vars

\* ------------------------------------------------------------ happy path
\* One run from the theme to the final video: every request is accepted,
\* every stream carries skipped lines, progress records and in the end the
\* record its action waits for, and the user confirms each stage as shown.

\* The record that completes the stage of a streamed action.
Awaited(kind, data) ==
    IF kind = "finalize" THEN data.status = "complete" /\ data.videoUrl # ""
    ELSE /\ kind = "confirm" => data.status = "images_ready"
         /\ kind = "compose" => data.status = "videos_ready"
         /\ kind = "generateVoices" => data.status = "voices_ready"
         /\ kind \in {"confirm", "compose", "generateVoices"}

HappyLines(kind) ==
    {l \in StreamLines :
        \/ ~l.data \/ l.blank \/ l.json = None
        \/ l.json[1].status = "running"
        \/ Awaited(kind, l.json[1])}

HappyChunks(kind) ==
    {c \in Chunks : \A i \in 1..Len(c.lines) : c.lines[i] \in HappyLines(kind)}

\* imageOrder as CutsPreview mounts it: the scene_ids of the images.
IdentityOrder(images) == [i \in 1..Len(images) |-> images[i].scene_id]

HappyNext ==
    \/ state.phase = "idle" /\ start
    \/ \E t \in Slots, r \in RunIds, sc \in ServerScripts : startResponse(t, r, sc)
    \/ ScriptPreview /\ confirm(state.script[1])
    \/ CutsPreview /\ compose(IdentityOrder(state.images[1]))
    \/ VideosPreview /\ generateVoices
    \/ VoicesPreview /\ goToTransitionEdit
    \/ TransitionEditor /\ \E tl \in {None, Some("telop")} :
                                finalize(PageTransitions(state.script[1]), tl)
    \/ \E t \in Slots : connectSSE(t)
    \/ \E t \in Slots : streamOpened(t)
    \/ \E t \in Slots : /\ tasks[t].kind \in Streamed
                         /\ \E c \in HappyChunks(tasks[t].kind) : onChunk(t, c)
    \/ leftOpenClosed

HappySpec == Init /\ [][HappyNext]_vars

\* ----------------------------------------------------------- cuts review
\* CutsPreview on screen for a restored run: the script and the images are
\* what the server stored, and the user swaps images and composes.

\* What reading an array element that is not there gives.
Undefined == 0

\* a[i] read and a[i] = v written as JavaScript does it, i counted from 0:
\* a read outside the array gives undefined, a write at a.length grows the
\* array, a write at -1 sets a property and leaves the elements alone.
At(a, i) == IF i \in 0..(Len(a) - 1) THEN a[i + 1] ELSE Undefined

Put(a, i, v) ==
    IF i \in 0..(Len(a) - 1) THEN [a EXCEPT ![i + 1] = v]
    ELSE IF i = Len(a) THEN Append(a, v)
    ELSE a

\* The array swapImages stores: the range check is on target only.
Swapped(order, index, direction) ==
    LET target == index + direction
    IN  IF target < 0 \/ target >= Len(order) THEN order
        ELSE Put(Put(order, index, At(order, target)), target, At(order, index))

\* A faulty swap, against which the properties of a swap are tested: the
\* images of the Session are swapped with the order.
swapImagesMovingImages(index, direction) ==
    /\ CutsPreview
    /\ index \in 0..(Len(state.script[1].scenes) - 1)
    /\ direction = 0 - 1 => index # 0
    /\ direction = 1 => index # Len(state.script[1].scenes) - 1
    /\ imageOrder' = Swapped(imageOrder, index, direction)
    /\ state' = [state EXCEPT !.images = Some(Swapped(state.images[1], index, direction))]
    /\ lastCall' = [op |-> "swapImages", arg |-> Some(<<index, direction>>)]
    /\ UNCHANGED <<tasks, abortRef, calls, scenes>>

\* A click on the up (direction -1) or down (direction 1) button of the row
\* of scene index: the first row has no up and the last row no down.
swapImages(index, direction) ==
    /\ CutsPreview
    /\ index \in 0..(Len(state.script[1].scenes) - 1)
    /\ direction = 0 - 1 => index # 0
    /\ direction = 1 => index # Len(state.script[1].scenes) - 1
    /\ imageOrder' = Swapped(imageOrder, index, direction)
    /\ lastCall' = [op |-> "swapImages", arg |-> Some(<<index, direction>>)]
    /\ UNCHANGED <<state, tasks, abortRef, calls, scenes>>

\* The scripts and image sets a stored run may hold.
CutsScripts == {Numbered(m, "t1", "p1") : m \in 1..MaxCuts}

CutsImages ==
    UNION { { [i \in 1..n |-> CutImage(ids[i], "g1")] :
                ids \in {x \in [1..n -> 1..MaxCuts] :
                            \A i, j \in 1..n : i # j => x[i] # x[j]} }
            : n \in 1..MaxCuts }

CutsInit ==
    /\ \E sc \in CutsScripts, im \in CutsImages :
          /\ state = RestoredState([run_id |-> "r1", script |-> Some(sc),
                                    images |-> Some(im), videos |-> None,
                                    voices |-> None, videoUrl |-> None])
          /\ imageOrder = IdentityOrder(im)
    /\ abortRef = 0
    /\ tasks = [t \in Slots |-> NoTask]
    /\ lastCall = NoCall
    /\ calls = 0
    /\ scenes = <<>>

CutsNext ==
    \/ \E index \in 0..(MaxCuts - 1), direction \in {0 - 1, 1} : swapImages(index, direction)
    \/ CutsPreview /\ compose(imageOrder)

CutsSpec == CutsInit /\ [][CutsNext]_vars

\* ---------------------------------------------------------- script review
\* ScriptPreview on screen for a restored run: its scenes start as the
\* scenes of the script, and the user edits and moves them.

\* prev.map((s, i) => (i === index ? { ...s, ...patch } : s))
Patched(prev, index, patch) ==
    [i \in 1..Len(prev) |->
        IF i - 1 = index
        THEN [f \in DOMAIN prev[i] |-> IF f \in DOMAIN patch THEN patch[f] ELSE prev[i][f]]
        ELSE prev[i]]

updateScene(index, patch) ==
    /\ ScriptPreview
    /\ index \in 0..(Len(scenes) - 1)
    /\ scenes' = Patched(scenes, index, patch)
    /\ lastCall' = [op |-> "updateScene", arg |-> Some(<<index, patch>>)]
    /\ UNCHANGED <<state, tasks, abortRef, calls, imageOrder>>

\* next.map((s, i) => ({ ...s, scene_id: i + 1 }))
Renumbered(next) == [i \in 1..Len(next) |-> [next[i] EXCEPT !.scene_id = i]]

\* A faulty move, against which the renumbering is tested: the scenes are
\* swapped and keep their scene_ids.
MovedKeepingIds(prev, index, direction) ==
    LET target == index + direction
    IN  IF target < 0 \/ target >= Len(scenes) THEN prev
        ELSE Put(Put(prev, index, At(prev, target)), target, At(prev, index))

\* The array moveScene stores: nothing changes when target is out of range,
\* else the two scenes are swapped and all scenes renumbered by position.
Moved(prev, index, direction) ==
    LET target == index + direction
    IN  IF target < 0 \/ target >= Len(scenes) THEN prev
        ELSE Renumbered(Put(Put(prev, index, At(prev, target)), target, At(prev, index)))

\* moveScene(index, direction) as the up (direction -1) and down
\* (direction 1) buttons of the row of scene index call it.
moveScene(index, direction) ==
    /\ ScriptPreview
    /\ index \in 0..(Len(scenes) - 1)
    /\ scenes' = Moved(scenes, index, direction)
    /\ lastCall' = [op |-> "moveScene", arg |-> Some(<<index, direction>>)]
    /\ UNCHANGED <<state, tasks, abortRef, calls, imageOrder>>

\* The scripts a stored run may hold: up to MaxCuts scenes numbered in
\* narrative order, each with one of three bodies.
PreviewBodies == {Body("t1", "p1", 1), Body("t2", "p1", 2), Body("t1", "p2", 1)}

PreviewScripts ==
    UNION { { [title |-> "T",
               scenes |-> [i \in 1..n |->
                             [scene_id |-> i, text |-> b[i].text,
                              image_prompt |-> b[i].image_prompt,
                              duration_sec |-> b[i].duration_sec]]] :
                b \in [1..n -> PreviewBodies] }
            : n \in 1..MaxCuts }

\* The patches of the text field of a scene.
Patches == {[text |-> "t2"]}

ScriptInit ==
    /\ \E sc \in PreviewScripts :
          /\ state = RestoredState([run_id |-> "r1", script |-> Some(sc),
                                    images |-> None, videos |-> None,
                                    voices |-> None, videoUrl |-> None])
          /\ scenes = sc.scenes
    /\ abortRef = 0
    /\ tasks = [t \in Slots |-> NoTask]
    /\ lastCall = NoCall
    /\ calls = 0
    /\ imageOrder = <<>>

ScriptNext ==
    \/ \E index \in 0..(MaxCuts - 1), direction \in {0 - 1, 1} : moveScene(index, direction)
    \/ \E index \in 0..(MaxCuts - 1), patch \in Patches : updateScene(index, patch)

ScriptSpec == ScriptInit /\ [][ScriptNext]_vars

\* -------------------------------------------------------- finalized runs
\* The page on runs restored at the voice stage or later, whose scripts have
\* 1..MaxCuts scenes: the user finalizes, returns to earlier panels,
\* confirms an edited script, resets and restores another run.

\* ScriptPreview: the shown script, unedited or with the text of its first
\* scene edited.
FinalizeEdits(script) ==
    {script, [script EXCEPT !.scenes[1].text = "t2"]}

FinalizeBundles ==
    { [Bundle(r, k) EXCEPT !.script = Some(sc)] :
        r \in RunIds, k \in 4..5, sc \in CutsScripts }

FinalizeNext ==
    \/ state.phase = "idle" /\ \E r \in RunIds : restoreFromHistory(r)
    \/ \E t \in Slots, d \in FinalizeBundles : restoreResponse(t, d)
    \/ ScriptPreview /\ \E e \in FinalizeEdits(state.script[1]) : confirm(e)
    \/ VoicesPreview /\ goToTransitionEdit
    \/ TransitionEditor /\ finalize(PageTransitions(state.script[1]), None)
    \/ TransitionEditor /\ goToVoicesReview
    \/ VideoPreview /\ state.script # None /\ goToScriptReview
    \/ VideoPreview /\ state.images # None /\ goToCutsReview
    \/ VideoPreview /\ state.videos # None /\ goToVideosReview
    \/ VideoPreview /\ state.voices # None /\ goToVoicesReview
    \/ VideoPreview /\ state.script # None /\ goToTransitionEdit
    \/ /\ \/ ScriptPreview \/ CutsPreview \/ VideosPreview \/ VoicesPreview
          \/ TransitionEditor \/ VideoPreview \/ ErrorPanel
       /\ reset
    \/ \E t \in Slots, m \in Failures : fetchFailed(t, m)
    \/ \E t \in Slots : connectSSE(t)
    \/ \E t \in Slots : streamOpened(t)
    \/ \E t \in Slots, m \in Failures : streamThrows(t, m)
    \/ \E t \in Slots : streamClosed(t)
    \/ \E t \in Slots, d \in Records : onRecord(t, d)
    \/ leftOpenClosed

FinalizeSpec == Init /\ [][FinalizeNext]_vars

\* ------------------------------------------------ the order of the cuts
\* The page on a run restored at the image stage, with CutsPreview mounted
\* and unmounted as Home renders it: the user swaps images, composes the
\* swapped order, goes on to the final video and returns to the cuts.

\* CutsPreview is mounted exactly when Home renders it.
Settled == CutsPreview <=> imageOrder # <<>>

\* The render that follows a change of the Session: Home mounts CutsPreview,
\* whose imageOrder starts as the scene_ids of the images, or unmounts it,
\* which discards imageOrder.
renderCutsPreview ==
    /\ ~Settled
    /\ imageOrder' = IF CutsPreview THEN IdentityOrder(state.images[1]) ELSE <<>>
    /\ UNCHANGED <<state, abortRef, tasks, lastCall, calls, scenes>>

\* The stored runs: a script of 2..MaxCuts scenes and one image per scene.
OrderBundles ==
    { [Bundle("r1", 2) EXCEPT !.script = Some(Numbered(n, "t1", "p1")),
                              !.images = Some([i \in 1..n |-> CutImage(i, "g1")])] :
        n \in 2..MaxCuts }

OrderInit ==
    /\ \E d \in OrderBundles : state = RestoredState(d)
    /\ abortRef = 0
    /\ tasks = [t \in Slots |-> NoTask]
    /\ lastCall = NoCall
    /\ calls = 0
    /\ imageOrder = <<>>
    /\ scenes = <<>>

\* The user composes only after a swap has left an order other than that of
\* the images.
OrderNext ==
    \/ renderCutsPreview
    \/ /\ Settled
       /\ \/ \E index \in 0..(MaxCuts - 1), direction \in {0 - 1, 1} :
                swapImages(index, direction)
          \/ /\ CutsPreview
             /\ imageOrder # IdentityOrder(state.images[1])
             /\ compose(imageOrder)
          \/ VideosPreview /\ generateVoices
          \/ VoicesPreview /\ goToTransitionEdit
          \/ TransitionEditor /\ finalize(PageTransitions(state.script[1]), None)
          \/ VideoPreview /\ state.images # None /\ goToCutsReview
          \/ \E t \in Slots, m \in Failures : fetchFailed(t, m)
          \/ \E t \in Slots : connectSSE(t)
          \/ \E t \in Slots : streamOpened(t)
          \/ \E t \in Slots : streamClosed(t)
          \/ \E t \in Slots, d \in Records : onRecord(t, d)
          \/ leftOpenClosed

OrderSpec == OrderInit /\ [][OrderNext]_vars

\* ---------------------------------------------------- scoped regeneration
\* regenerateImage and regenerateVideo from their review panels, against a
\* server that regenerates the artifacts of the named scenes.

\* The url of an artifact generated anew in place of the one with url u.
Fresh(u) == IF u = "g2" THEN "g3" ELSE "g2"

\* The set the image or video stage delivers after a scoped regeneration of
\* the stored set: the artifacts of the named scene_ids generated anew, the
\* others as stored.
RECURSIVE RegeneratedImages(_, _)
RegeneratedImages(images, named) ==
    IF images = <<>> THEN <<>>
    ELSE LET image == Head(images)
         IN  <<IF image.scene_id \in named
               THEN CutImage(image.scene_id, Fresh(image.imageUrl))
               ELSE image>> \o RegeneratedImages(Tail(images), named)

RECURSIVE RegeneratedVideos(_, _)
RegeneratedVideos(videos, named) ==
    IF videos = <<>> THEN <<>>
    ELSE LET video == Head(videos)
         IN  <<IF video.scene_id \in named
               THEN VideoClip(video.scene_id, Fresh(video.videoUrl))
               ELSE video>> \o RegeneratedVideos(Tail(videos), named)

\* The records the stream of a scoped regeneration carries: progress, then
\* the stage-ready record with the regenerated set.
RegenerationRecords(task) ==
    LET named == DOMAIN task.body[1].scene_instructions
    IN  {Record("running", "", <<>>, <<>>, <<>>, "step")}
        \cup (IF task.kind = "regenerateImage"
               THEN {Record("images_ready", "",
                            RegeneratedImages(state.images[1], named), <<>>, <<>>, "")}
               ELSE {Record("videos_ready", "", <<>>,
                            RegeneratedVideos(state.videos[1], named), <<>>, "")})

\* A restored run in the cuts review or in the videos review.
RegenInit ==
    /\ \E k \in {2, 3} : state = RestoredState(Bundle("r1", k))
    /\ abortRef = 0
    /\ tasks = [t \in Slots |-> NoTask]
    /\ lastCall = NoCall
    /\ calls = 0
    /\ imageOrder = <<>>
    /\ scenes = <<>>

RegenNext ==
    \/ CutsPreview /\ \E i \in PageInstructions(SceneIdsOf(state.script[1])) : regenerateImage(i)
    \/ VideosPreview /\ \E i \in PageInstructions(ArtifactIds(state.videos[1])) : regenerateVideo(i)
    \/ \E t \in Slots : connectSSE(t)
    \/ \E t \in Slots : streamOpened(t)
    \/ \E t \in Slots :
          /\ tasks[t].kind \in {"regenerateImage", "regenerateVideo"}
          /\ \E d \in RegenerationRecords(tasks[t]) : onRecord(t, d)
    \/ leftOpenClosed

RegenSpec == RegenInit /\ [][RegenNext]_vars

\* ------------------------------------------------------------ hook calls
\* The functions of the hook called at any time, with the script request of
\* start answered or failing and the stage-start requests failing; no stage
\* is acknowledged, so no stream is opened.
CallNext ==
    \/ Budget /\ start
    \/ Budget /\ reset
    \/ Budget /\ \E e \in EditedScripts : confirm(e)
    \/ Budget /\ \E o \in Orders : compose(o)
    \/ Budget /\ generateVoices
    \/ Budget /\ \E i \in Instructions : regenerateImage(i)
    \/ Budget /\ \E i \in Instructions : regenerateVideo(i)
    \/ Budget /\ \E d \in VoiceEdits : regenerateVoices(d)
    \/ Budget /\ \E tr \in Optional(TransitionSets), tl \in Telops : finalize(tr, tl)
    \/ \E t \in Slots, m \in Failures : fetchFailed(t, m)
    \/ \E t \in Slots, r \in RunIds, sc \in ServerScripts : startResponse(t, r, sc)

CallSpec == Init /\ [][CallNext]_vars

\* ----------------------------------------------------- confirm, end to end
\* confirm on a restored run, one call at a time, followed through every way
\* it can end: the request fails, the stream fails, ends or delivers its
\* records, or the call is cancelled by reset or by goToScriptReview.
\* A read that delivers the data line of one record, whole.
OneRecord(data) == [lines |-> <<Line(TRUE, FALSE, Some(data))>>, cut |-> FALSE]

ConfirmInit ==
    /\ \E k \in 1..5 : state = RestoredState(Bundle("r1", k))
    /\ abortRef = 0
    /\ tasks = [t \in Slots |-> NoTask]
    /\ lastCall = NoCall
    /\ calls = 0
    /\ imageOrder = <<>>
    /\ scenes = <<>>

ConfirmNext ==
    \/ /\ Budget
       /\ \A t \in Slots : tasks[t] = NoTask
       /\ \E e \in EditedScripts : confirm(e)
    \/ Budget /\ reset
    \/ Budget /\ goToScriptReview
    \/ \E t \in Slots, m \in Failures : fetchFailed(t, m)
    \/ \E t \in Slots : connectSSE(t)
    \/ \E t \in Slots : streamOpened(t)
    \/ \E t \in Slots, m \in Failures : streamThrows(t, m)
    \/ \E t \in Slots : streamAborted(t)
    \/ \E t \in Slots : streamClosed(t)
    \/ \E t \in Slots, d \in Records : onChunk(t, OneRecord(d))

ConfirmSpec == ConfirmInit /\ [][ConfirmNext]_vars

\* --------------------------------------------------- regenerated voices
\* VoicesPreview on restored runs: the user regenerates the voices, and the
\* stream delivers any record, the regenerated set among them.
VoiceRecords ==
    Records \cup {Record("voices_ready", "", <<>>, <<>>,
                         [i \in 1..MaxScenes |-> VoiceClip(i, "g2")], "")}

VoicesNext ==
    \/ VoicesPreview /\ \E d \in VoiceEdits : regenerateVoices(d)
    \/ VideoPreview /\ state.voices # None /\ goToVoicesReview
    \/ \E t \in Slots, m \in Failures : fetchFailed(t, m)
    \/ \E t \in Slots : connectSSE(t)
    \/ \E t \in Slots : streamOpened(t)
    \/ \E t \in Slots : streamClosed(t)
    \/ \E t \in Slots, d \in VoiceRecords : onChunk(t, OneRecord(d))
    \/ leftOpenClosed

VoicesSpec == ConfirmInit /\ [][VoicesNext]_vars

\* ================================================================ claims
\* The connections whose reads can still deliver records.
LiveStreams == {t \in Slots : tasks[t].pc \in {"connect", "read"} /\ ~tasks[t].aborted}

\* The step continued the pending call in slot t.
StepOf(t) == lastCall' = [op |-> "none", arg |-> Some(t)]

\* C1: at most one progress stream is open per Session at any time: there is
\* never more than one live stream consumer.
C1_OneLiveStream == Cardinality(LiveStreams) <= 1

\* The connection of slot t was cancelled, or a newer connection has taken
\* its place in abortRef.
Superseded(t) ==
    /\ tasks[t].pc \in {"connect", "read"}
    /\ (tasks[t].aborted \/ abortRef # t)

\* C2: a stream that has been superseded never mutates Session state
\* afterwards: no step of its connection changes the Session.
C2_SupersededStreamIsSilent ==
    [][\A t \in Slots : StepOf(t) /\ Superseded(t) => state' = state]_vars

\* C3: reset leaves the Session equal to the empty initial state, and the
\* Session stays empty until the next call: no response or stream record of an
\* earlier call changes it.
C3_ResetIsFinal ==
    [][/\ lastCall'.op = "reset" => state' = INITIAL_STATE
       /\ state = INITIAL_STATE /\ lastCall'.op = "none" => state' = INITIAL_STATE]_vars

\* The 'valid from' column of the transition table, for the streamed actions.
ValidFrom ==
    [confirm |-> {"script_review"}, compose |-> {"cuts_review"},
     regenerateImage |-> {"cuts_review"}, regenerateVideo |-> {"videos_review"},
     generateVoices |-> {"videos_review"}, regenerateVoices |-> {"voices_review"},
     finalize |-> {"transition_edit"}]

\* C4: a streamed action invoked from a phase outside its 'valid from' column
\* is a no-op: the Session is unchanged and no request is issued.
C4_InvalidPhaseIsNoOp ==
    [][\A op \in DOMAIN ValidFrom :
          lastCall'.op = op /\ state.phase \notin ValidFrom[op]
            => state' = state /\ tasks' = tasks /\ abortRef' = abortRef]_vars

\* C5: once phase is error, only reset (or a new run by start or restore)
\* changes the phase, and reset moves it to idle.
C5_ErrorIsTerminal ==
    [][state.phase = "error" /\ state'.phase # "error"
         => \/ lastCall'.op = "reset" /\ state'.phase = "idle"
            \/ lastCall'.op \in {"start", "restoreFromHistory"}]_vars

\* C6: phase complete implies a non-null final video locator.
C6_CompleteHasVideoUrl == state.phase = "complete" => state.videoUrl # None

\* C7: the final video locator and error are never both non-null.
C7_VideoUrlErrorExclusive == ~(state.videoUrl # None /\ state.error # None)

\* The changed-id set as the claim defines it: the scene_ids of the edited
\* script with no baseline counterpart or with another image_prompt.
ChangedSet(baseline, edited) ==
    { e.scene_id : e \in
        { x \in {edited.scenes[i] : i \in 1..Len(edited.scenes)} :
            \/ \A i \in 1..Len(baseline.scenes) : baseline.scenes[i].scene_id # x.scene_id
            \/ \E i \in 1..Len(baseline.scenes) :
                  /\ baseline.scenes[i].scene_id = x.scene_id
                  /\ baseline.scenes[i].image_prompt # x.image_prompt } }

Range(seq) == {seq[i] : i \in 1..Len(seq)}

\* The step issued exactly one request, of the given kind, and req holds of
\* its body.
Issued(kind, req(_)) ==
    \E t \in Slots :
        /\ tasks[t] = NoTask
        /\ tasks'[t].kind = kind
        /\ tasks'[t].pc = "request"
        /\ req(tasks'[t].body)
        /\ \A u \in Slots \ {t} : tasks'[u] = tasks[u]

\* C8: with a baseline and images, the changed ids confirm computes are
\* exactly the scene_ids that are new or whose image_prompt differs (a scene
\* that differs in text or duration_sec only is not among them), and the
\* image-stage request carries exactly this set as changed_scene_ids; with an
\* empty set there is no request.
C8_ChangedIdsExact ==
    [][lastCall'.op = "confirm" /\ state.runId # None
          /\ state.originalScript # None /\ state.images # None
         => LET edited == lastCall'.arg[1]
                changed == ChangedSet(state.originalScript[1], edited)
                Carries(body) ==
                    /\ body[1].script = edited
                    /\ body[1].changed_scene_ids # None
                    /\ Range(body[1].changed_scene_ids[1]) = changed
                    /\ Len(body[1].changed_scene_ids[1]) = Cardinality(changed)
            IN  IF changed = {} THEN tasks' = tasks ELSE Issued("confirm", Carries)]_vars

\* A confirm request in flight that names an added scene and leaves out a
\* scene of which only the text or the duration was edited.
C8_Witness ==
    \E t \in Slots :
        /\ tasks[t].kind = "confirm" /\ tasks[t].pc = "request"
        /\ state.originalScript # None
        /\ tasks[t].body[1].changed_scene_ids # None
        /\ LET ids == Range(tasks[t].body[1].changed_scene_ids[1])
               base == state.originalScript[1].scenes
               edit == tasks[t].edited[1].scenes
           IN  /\ \E id \in ids : \A i \in 1..Len(base) : base[i].scene_id # id
               /\ \E i \in 1..Len(base), j \in 1..Len(edit) :
                     /\ base[i].scene_id = edit[j].scene_id
                     /\ base[i] # edit[j]
                     /\ edit[j].scene_id \notin ids

\* The image_prompt of the edited script is unchanged on every scene_id
\* present in the baseline.
PromptsUnchanged(baseline, edited) ==
    \A i \in 1..Len(baseline.scenes), j \in 1..Len(edited.scenes) :
        baseline.scenes[i].scene_id = edited.scenes[j].scene_id
          => baseline.scenes[i].image_prompt = edited.scenes[j].image_prompt

\* confirm took the shortcut: no request, no stream, cuts_review with the
\* edited script, artifacts untouched.
SkippedTo(edited) ==
    /\ tasks' = tasks
    /\ abortRef' = abortRef
    /\ state'.phase = "cuts_review"
    /\ state'.script = Some(edited)
    /\ state'.images = state.images
    /\ state'.videos = state.videos
    /\ state'.voices = state.voices

\* C9 as stated: for every edited script whose image_prompt is unchanged on
\* every scene_id present in the baseline, confirm issues no request, opens
\* no stream and ends in cuts_review with the edited script.
C9_UnchangedPromptsSkip ==
    [][lastCall'.op = "confirm" /\ state.runId # None
          /\ state.originalScript # None /\ state.images # None
          /\ PromptsUnchanged(state.originalScript[1], lastCall'.arg[1])
         => SkippedTo(lastCall'.arg[1])]_vars

\* C9 as amended: the same, for the edited scripts that moreover have no
\* scene_id absent from the baseline.
C9_UnchangedKnownScenesSkip ==
    [][lastCall'.op = "confirm" /\ state.runId # None
          /\ state.originalScript # None /\ state.images # None
          /\ PromptsUnchanged(state.originalScript[1], lastCall'.arg[1])
          /\ SceneIdsOf(lastCall'.arg[1]) \subseteq SceneIdsOf(state.originalScript[1])
         => SkippedTo(lastCall'.arg[1])]_vars

\* confirm has skipped to cuts_review with a script that differs from the
\* baseline, in a Session that holds videos and voices.
C9_Witness ==
    /\ lastCall.op = "confirm"
    /\ state.phase = "cuts_review"
    /\ state.script = lastCall.arg
    /\ state.originalScript # None
    /\ state.script # state.originalScript
    /\ state.videos # None /\ state.voices # None
    /\ \A t \in Slots : tasks[t] = NoTask

\* goToScriptReview leaves the artifacts alone, and a second call right
\* after the first changes nothing.
BackKeepsArtifacts ==
    /\ lastCall'.op = "goToScriptReview"
         => /\ state'.images = state.images
            /\ state'.videos = state.videos
            /\ state'.voices = state.voices
            /\ state'.script = state.script
            /\ state'.phase = "script_review"
    /\ lastCall.op = "goToScriptReview" /\ lastCall'.op = "goToScriptReview"
         => state' = state

\* After goToScriptReview a confirm of the unedited script issues no request,
\* and a confirm issues an image-stage request only for a non-empty changed
\* set.
BackThenConfirm ==
    /\ lastCall.op = "goToScriptReview" /\ lastCall'.op = "confirm"
          /\ state.images # None /\ lastCall'.arg = state.script
         => tasks' = tasks /\ state'.phase = "cuts_review"
    /\ lastCall'.op = "confirm" /\ state.images # None /\ state.originalScript # None
          /\ tasks' # tasks
         => ChangedSet(state.originalScript[1], lastCall'.arg[1]) # {}

\* C10 as stated: goToScriptReview leaves images, videos and voices
\* unchanged; applying it twice yields the state of applying it once; with
\* images it leaves a non-null baseline, so that a following confirm of the
\* unedited script issues no request; a confirm issues an image-stage request
\* only when the changed set is not empty.
C10_BackToScriptIsSafe ==
    [][/\ BackKeepsArtifacts
       /\ BackThenConfirm
       /\ lastCall'.op = "goToScriptReview" /\ state.images # None
            => state'.originalScript # None]_vars

\* C10 as amended: the same, with the baseline non-null after
\* goToScriptReview when images and a script exist.
C10_BackToScriptWithScriptIsSafe ==
    [][/\ BackKeepsArtifacts
       /\ BackThenConfirm
       /\ lastCall'.op = "goToScriptReview" /\ state.images # None
             /\ state.script # None
            => state'.originalScript # None]_vars

\* goToScriptReview has brought a completed run with a script and images
\* back to script_review, the script kept as the baseline.
C10_Witness ==
    /\ lastCall.op = "goToScriptReview"
    /\ state.phase = "script_review"
    /\ state.videoUrl # None
    /\ state.images # None
    /\ state.script # None
    /\ state.originalScript = state.script

\* The go-to actions and the phase each one enters.
GoToTarget ==
    [goToScriptReview |-> "script_review", goToCutsReview |-> "cuts_review",
     goToVideosReview |-> "videos_review", goToVoicesReview |-> "voices_review",
     goToTransitionEdit |-> "transition_edit"]

\* C11: every go-to action leaves runId, script, images, videos, voices,
\* transitions and videoUrl as they were and enters its target phase.
C11_GoToKeepsData ==
    [][lastCall'.op \in DOMAIN GoToTarget
         => /\ state'.phase = GoToTarget[lastCall'.op]
            /\ state'.runId = state.runId
            /\ state'.script = state.script
            /\ state'.images = state.images
            /\ state'.videos = state.videos
            /\ state'.voices = state.voices
            /\ state'.transitions = state.transitions
            /\ state'.videoUrl = state.videoUrl]_vars

\* A go-to action has brought a completed run that holds every artifact back
\* to a review phase.
C11_Witness ==
    /\ lastCall.op \in {"goToCutsReview", "goToVideosReview", "goToScriptReview"}
    /\ state.phase = GoToTarget[lastCall.op]
    /\ state.script # None /\ state.images # None /\ state.videos # None
    /\ state.voices # None /\ state.videoUrl # None

\* The phase of a restored Session as the backward walk over its artifacts
\* gives it, idle when nothing is present.
WalkedPhase(s) ==
    IF s.videoUrl # None THEN "complete"
    ELSE IF s.voices # None THEN "voices_review"
    ELSE IF s.videos # None THEN "videos_review"
    ELSE IF s.images # None THEN "cuts_review"
    ELSE IF s.script # None THEN "script_review"
    ELSE "idle"

\* C12: a successful restore leaves the phase the backward walk over the
\* restored bundle gives: complete, voices_review, videos_review, cuts_review,
\* script_review, or idle when the bundle holds nothing.
C12_RestoreWalksBackward ==
    [][\A t \in Slots :
          StepOf(t) /\ tasks[t].kind = "restore" /\ tasks[t].pc = "request"
             /\ state'.error = None
            => state'.phase = WalkedPhase(state')]_vars

\* The records of a sequence of lines: the data lines that parse.
Decoded(lines) ==
    LET ok == SelectSeq(lines, LAMBDA l : l.data /\ ~l.blank /\ l.json # None)
    IN  [i \in 1..Len(ok) |-> ok[i].json[1]]

\* The stage-ready kind each streamed action waits for.
ReadyFor ==
    [confirm |-> "images_ready", regenerateImage |-> "images_ready",
     compose |-> "videos_ready", regenerateVideo |-> "videos_ready",
     generateVoices |-> "voices_ready", regenerateVoices |-> "voices_ready",
     finalize |-> "none"]

\* A terminal record of a connection opened by the action kind: its
\* stage-ready record, complete with a locator, or error.
Terminal(kind, data) ==
    \/ data.status = ReadyFor[kind]
    \/ data.status = "complete" /\ data.videoUrl # ""
    \/ data.status = "error"

\* The lines up to and including the first one that holds a terminal record.
UpToTerminal(kind, lines) ==
    LET hits == {i \in 1..Len(lines) :
                    /\ lines[i].data /\ ~lines[i].blank /\ lines[i].json # None
                    /\ Terminal(kind, lines[i].json[1])}
    IN  IF hits = {} THEN lines
        ELSE SubSeq(lines, 1, CHOOSE i \in hits : \A j \in hits : i <= j)

\* The read of this step, when the step is a read of the stream body.
ReadSlot == lastCall'.arg[1][1]
ReadChunk == lastCall'.arg[1][2]
ReadLines == Complete(tasks[ReadSlot], ReadChunk)

\* C13: at most one terminal event is honored per connection: a read that
\* delivers a terminal record leaves the Session as the lines up to that
\* record leave it, ends the reading of the connection, and closes the
\* connection.
C13_OneTerminalPerConnection ==
    [][lastCall'.op = "read"
         => LET task == tasks[ReadSlot]
                first == UpToTerminal(task.kind, ReadLines)
            IN  /\ task.pc = "read"
                /\ (\E i \in 1..Len(Decoded(ReadLines)) :
                        Terminal(task.kind, Decoded(ReadLines)[i]))
                     => /\ state' = HandleLines(state, task, first).state
                        /\ Cardinality({f \in {"images", "videos", "voices", "videoUrl", "error"} :
                                           state'[f] # state[f]}) <= 1
                        /\ tasks'[ReadSlot] = NoTask
                        /\ abortRef' # Abandoned]_vars

\* A line that is skipped: it does not start with "data:", it has nothing
\* after the prefix, or what follows the prefix is not JSON.
Malformed(line) == ~line.data \/ line.blank \/ line.json = None

\* The records handled one after the other until one ends the connection.
RECURSIVE ApplyRecords(_, _, _)
ApplyRecords(s, task, records) ==
    IF records = <<>> THEN [state |-> s, return |-> FALSE]
    ELSE LET r == Dispatch(s, task, Head(records))
         IN  IF r.return THEN r ELSE ApplyRecords(r.state, task, Tail(records))

\* C14: malformed lines of the progress stream are skipped: a read leaves
\* the Session as its records alone would leave it, and a read of malformed
\* lines only changes no Session field, does not move the Session to error
\* and leaves the call reading the connection.
C14_MalformedLinesSkipped ==
    [][lastCall'.op = "read"
         => LET task == tasks[ReadSlot]
                r == ApplyRecords(state, task, Decoded(ReadLines))
            IN  /\ state' = r.state
                /\ (tasks'[ReadSlot].pc = "read") <=> ~r.return
                /\ (\A i \in 1..Len(ReadLines) : Malformed(ReadLines[i]))
                     => /\ state' = state
                        /\ tasks'[ReadSlot].pc = "read"
                        /\ abortRef' = abortRef]_vars

\* A read has handled a data line that is not JSON and the call still reads.
C14_Witness ==
    /\ lastCall.op = "read"
    /\ LET t == lastCall.arg[1][1]
           chunk == lastCall.arg[1][2]
       IN  /\ ~chunk.cut
           /\ chunk.lines # <<>>
           /\ \A i \in 1..Len(chunk.lines) :
                 chunk.lines[i].data /\ ~chunk.lines[i].blank /\ chunk.lines[i].json = None
           /\ tasks[t].pc = "read"
           /\ state.phase \in {"running", "composing", "finalizing"}

\* The first terminal record among the records of a read, if there is one.
FirstTerminal(kind, records) ==
    LET hits == {i \in 1..Len(records) : Terminal(kind, records[i])}
    IN  IF hits = {} THEN None
        ELSE Some(records[CHOOSE i \in hits : \A j \in hits : i <= j])

\* C15: when the stream delivers an error record, the Session moves to phase
\* error with error set to the detail of the record, or to the generic
\* message when the record has none, the artifacts are left as they are, and
\* the call stops reading, so that no later record of the stream is applied.
C15_ErrorRecordEndsStream ==
    [][lastCall'.op = "read"
         => LET task == tasks[ReadSlot]
                first == FirstTerminal(task.kind, Decoded(ReadLines))
            IN  (first # None /\ first[1].status = "error")
                  => /\ state'.phase = "error"
                     /\ state'.error = Some(IF first[1].detail = "" THEN "Unknown error"
                                            ELSE first[1].detail)
                     /\ \A f \in {"runId", "script", "originalScript", "images", "videos",
                                   "voices", "transitions", "videoUrl"} :
                           state'[f] = state[f]
                     /\ tasks'[ReadSlot] = NoTask]_vars

\* A read has handled an error record without detail, and the Session shows
\* the generic message.
C15_Witness ==
    /\ lastCall.op = "read"
    /\ LET t == lastCall.arg[1][1]
           chunk == lastCall.arg[1][2]
       IN  /\ ~chunk.cut
           /\ Len(chunk.lines) = 1
           /\ chunk.lines[1].data /\ ~chunk.lines[1].blank
           /\ chunk.lines[1].json # None
           /\ chunk.lines[1].json[1].status = "error"
           /\ chunk.lines[1].json[1].detail = ""
           /\ tasks[t] = NoTask
    /\ state.phase = "error"
    /\ state.error = Some("Unknown error")

\* C16: when the stage-start request of a streamed action fails, the Session
\* moves to phase error with the message of the failure stored (the generic
\* message when the failure has none), the call ends, and no progress stream
\* is opened for it.
C16_FailedStageStart ==
    [][\A t \in Slots :
          (/\ StepOf(t)
           /\ tasks[t].kind \in Streamed
           /\ tasks[t].pc = "request"
           /\ tasks'[t].pc # "connect")
            => /\ state'.phase = "error"
               /\ state'.error \in {Some(ErrorText(m, "Unknown error")) : m \in Failures}
               /\ state'.error # Some("")
               /\ tasks'[t] = NoTask
               /\ abortRef' = abortRef]_vars

\* The stage-start request of the first streamed action of a run has failed:
\* the Session shows the message and no stream was ever opened.
C16_Witness ==
    /\ lastCall.op = "none"
    /\ state.phase = "error"
    /\ state.error = Some("API error: 500")
    /\ state.script # None
    /\ state.images = None
    /\ abortRef = 0
    /\ \A t \in Slots : tasks[t] = NoTask

\* The phases the code goes through on the happy path, and the place of a
\* Session among them: the two visits of running are told apart by the
\* script, the two visits of composing by the videos.
HappyPhases ==
    <<"idle", "running", "script_review", "running", "cuts_review", "composing",
      "videos_review", "composing", "voices_review", "transition_edit",
      "finalizing", "complete">>

Stage(s) ==
    CASE s.phase = "idle" -> 1
      [] s.phase = "running" /\ s.script = None -> 2
      [] s.phase = "script_review" -> 3
      [] s.phase = "running" /\ s.script # None -> 4
      [] s.phase = "cuts_review" -> 5
      [] s.phase = "composing" /\ s.videos = None -> 6
      [] s.phase = "videos_review" -> 7
      [] s.phase = "composing" /\ s.videos # None -> 8
      [] s.phase = "voices_review" -> 9
      [] s.phase = "transition_edit" -> 10
      [] s.phase = "finalizing" -> 11
      [] s.phase = "complete" -> 12
      [] OTHER -> 0

\* The place of a Session in the sequence as stated: idle, script_review,
\* running, cuts_review, ... with no phase between idle and script_review.
StatedStage(s) ==
    CASE s.phase = "idle" -> 1
      [] s.phase = "script_review" -> 2
      [] s.phase = "running" /\ s.script # None -> 3
      [] s.phase = "cuts_review" -> 4
      [] s.phase = "composing" /\ s.videos = None -> 5
      [] s.phase = "videos_review" -> 6
      [] s.phase = "composing" /\ s.videos # None -> 7
      [] s.phase = "voices_review" -> 8
      [] s.phase = "transition_edit" -> 9
      [] s.phase = "finalizing" -> 10
      [] s.phase = "complete" -> 11
      [] OTHER -> 0

Ends(s) == s.phase = "complete" => s.videoUrl # None /\ s.error = None

\* C17 as stated: on the happy path every change of phase goes to the next
\* phase of idle, script_review, running, cuts_review, composing,
\* videos_review, composing, voices_review, transition_edit, finalizing,
\* complete, and the run ends with videoUrl set and error null.
C17_HappyPath ==
    [][/\ state'.phase # state.phase
            => StatedStage(state') # 0 /\ StatedStage(state') = StatedStage(state) + 1
       /\ Ends(state')]_vars

\* C17, amended: the sequence starts idle, running, script_review: submit
\* theme shows running while the script is requested, and the answer of the
\* request moves to script_review; from there on the phases are as stated.
C17_HappyPathWithRunning ==
    [][/\ state'.phase # state.phase
            => /\ Stage(state') = Stage(state) + 1
               /\ HappyPhases[Stage(state')] = state'.phase
       /\ Ends(state')]_vars

\* The run is complete with everything it produced, after the read that
\* delivered the complete record.
C17_Witness ==
    /\ lastCall.op = "read"
    /\ state.phase = "complete"
    /\ state.videoUrl # None
    /\ state.error = None
    /\ state.script # None /\ state.images # None /\ state.videos # None
    /\ state.voices # None /\ state.transitions # None

\* An order that is a permutation of the scene_ids of the images.
IsPermutation(order, images) ==
    /\ Len(order) = Len(images)
    /\ \A i \in 1..Len(images) :
          Cardinality({j \in 1..Len(order) : order[j] = images[i].scene_id})
            = Cardinality({j \in 1..Len(images) : images[j].scene_id = images[i].scene_id})

\* C18: a swap in the cuts review leaves the Session as it is (images,
\* videos, voices and the scene_ids of the script among it) and issues no
\* request; only imageOrder changes.
C18_SwapTouchesOrderOnly ==
    [][lastCall'.op = "swapImages"
         => /\ state' = state
            /\ tasks' = tasks
            /\ abortRef' = abortRef]_vars

\* A swap has moved an image to another row.
C18_Witness ==
    /\ lastCall.op = "swapImages"
    /\ CutsPreview
    /\ imageOrder # IdentityOrder(state.images[1])
    /\ IsPermutation(imageOrder, state.images[1])

\* C19: imageOrder is a permutation of the scene_ids of the images while the
\* cuts review is on screen, whatever swaps were clicked, and so is the order
\* compose sends.
C19_OrderIsPermutation ==
    /\ CutsPreview => IsPermutation(imageOrder, state.images[1])
    /\ \A t \in Slots :
          tasks[t].kind = "compose"
            => IsPermutation(tasks[t].body[1].scene_order, state.images[1])

C21_NoRunIdIsNoOp ==
    [][(lastCall'.op \in Streamed /\ state.runId = None)
         => /\ state' = state
            /\ tasks' = tasks
            /\ abortRef' = abortRef]_vars

\* compose was called in the idle Session, which is still the initial one.
C21_Witness ==
    /\ lastCall.op = "compose"
    /\ state = INITIAL_STATE
    /\ \A t \in Slots : tasks[t] = NoTask

\* C22: in every reachable state, phase error implies that error holds a
\* non-empty message.
C22_ErrorHasMessage ==
    state.phase = "error" => state.error # None /\ state.error # Some("")

\* A request failed without a message before any stream was opened, and the
\* Session shows the generic message.
C22_Witness ==
    /\ state.phase = "error"
    /\ state.error = Some("Unknown error")
    /\ abortRef = 0
    /\ state.runId # None

\* The stage-ready kinds: the markers of the three stages and of the final
\* video.
StageReady == {"images_ready", "videos_ready", "voices_ready", "complete"}

\* The kinds a connection opened by the action kind waits for: the one of the
\* callback the action supplies; finalize supplies none and waits for the
\* final video.
Supplied(kind) == IF kind = "finalize" THEN {"complete"} ELSE {ReadyFor[kind]}

\* C23: a stage-ready record is terminal only on a connection that waits for
\* its kind: a read whose records are all stage-ready records of other kinds
\* changes no phase and leaves the call reading the connection.
C23_OnlyMatchingKindIsTerminal ==
    [][lastCall'.op = "read"
         => LET task == tasks[ReadSlot]
                records == Decoded(ReadLines)
            IN  (/\ records # <<>>
                 /\ \A i \in 1..Len(records) :
                       /\ records[i].status \in StageReady
                       /\ records[i].status \notin Supplied(task.kind))
                  => /\ state'.phase = state.phase
                     /\ tasks'[ReadSlot].pc = "read"]_vars

\* The go-to actions of the hook.
GoToOps ==
    {"goToScriptReview", "goToCutsReview", "goToVideosReview", "goToVoicesReview",
     "goToTransitionEdit"}

\* C24: every go-to action, goToTransitionEdit among them, cancels any open
\* stream: after the call every connection that was being made or read is
\* aborted, so that none of them changes the Session later.
C24_GoToCancelsStreams ==
    [][lastCall'.op \in GoToOps
         => \A t \in Slots :
               tasks[t].pc \in {"connect", "read"} => tasks'[t].aborted]_vars

\* C25: restoreFromHistory supersedes the previous Session: after the call
\* every connection of an earlier call is aborted and no earlier call is left
\* waiting for the answer of its request, so that nothing of the previous run
\* reaches the restored Session.
C25_RestoreCancelsPrevious ==
    [][lastCall'.op = "restoreFromHistory"
         => \A t \in Slots :
               /\ tasks[t].pc \in {"connect", "read"} => tasks'[t].aborted
               /\ tasks[t].pc = "request" => tasks'[t] = NoTask \/ tasks'[t].aborted]_vars

\* The call in slot t is a confirm and this step hands it the images of its
\* image stage.
ConfirmCompletes(t) ==
    /\ lastCall'.op = "read"
    /\ ReadSlot = t
    /\ tasks[t].kind = "confirm"
    /\ FirstTerminal("confirm", Decoded(ReadLines)) # None
    /\ FirstTerminal("confirm", Decoded(ReadLines))[1].status = "images_ready"

\* A step that replaces the whole Session: start, reset, or the answer of a
\* restore.
Replaces ==
    \/ lastCall'.op \in {"start", "reset", "restoreFromHistory"}
    \/ \E t \in Slots : StepOf(t) /\ tasks[t].kind = "restore"

\* C26: the baseline script becomes the edited script when the image stage
\* of a confirm completes, and within a Session at no other step: a confirm
\* that fails, is cancelled or takes the shortcut leaves the baseline as it
\* was.
C26_BaselineFollowsImages ==
    [][/\ \A t \in Slots : ConfirmCompletes(t) => state'.originalScript = tasks[t].edited
       /\ state'.originalScript # state.originalScript
            => Replaces \/ \E t \in Slots : ConfirmCompletes(t)]_vars

\* The image stage of a confirm with an edited script has completed, and the
\* baseline is that script.
C26_Witness ==
    /\ lastCall.op = "read"
    /\ state.phase = "cuts_review"
    /\ state.originalScript # None
    /\ state.originalScript = state.script
    /\ state.originalScript[1] \notin ServerScripts

\* C27: in every reachable state a non-null baseline script implies that
\* images is non-null.
C27_BaselineNeedsImages == state.originalScript # None => state.images # None

\* A run restored with its images: the baseline is the restored script.
C27_Witness ==
    /\ state.originalScript # None
    /\ state.originalScript = state.script
    /\ state.images \in {Some(i) : i \in RestoredImages}
    /\ state.phase = "cuts_review"
    /\ abortRef = 0

\* C28: after a restore the baseline is the restored script when the bundle
\* holds images, and null when it holds none or an empty image set.
C28_RestoredBaseline ==
    [][\A t \in Slots :
          (/\ StepOf(t)
           /\ tasks[t].kind = "restore"
           /\ tasks[t].pc = "request"
           /\ state'.error = None)
            => state'.originalScript
                 = IF Present(state'.images) THEN state'.script ELSE None]_vars

\* The call of confirm is on the first-time path: the Session has a run and
\* no baseline script or no images.
FirstTime ==
    /\ state.runId # None
    /\ state.originalScript = None \/ state.images = None

\* The confirm of this step has issued an image-stage request whose body is
\* the full edited script with no changed_scene_ids.
FullRequest ==
    \E t \in Slots :
        /\ tasks[t] = NoTask
        /\ tasks'[t] = NewTask("confirm", state.runId[1], lastCall'.arg,
                               Some([script |-> lastCall'.arg[1],
                                     changed_scene_ids |-> None]))

\* C29: a confirm in a Session of a run with no baseline script or no images skips
\* the diff: it shows running and issues an image-stage request for the full
\* edited script with no changed_scene_ids; when images-ready arrives the
\* Session is in cuts_review with script and baseline equal to the edited
\* script and images equal to the delivered ones.
C29_FirstTimeConfirm ==
    [][/\ lastCall'.op = "confirm" /\ FirstTime
            => /\ state'.phase = "running"
               /\ state' = [state EXCEPT !.phase = "running", !.progress = None]
               /\ FullRequest
       /\ \A t \in Slots :
            ConfirmCompletes(t)
              => /\ state'.phase = "cuts_review"
                 /\ state'.script = tasks[t].edited
                 /\ state'.originalScript = tasks[t].edited
                 /\ state'.images
                      = Some(FirstTerminal("confirm", Decoded(ReadLines))[1].images)]_vars

\* A confirm on the first-time path has just been called: the Session shows
\* running and the pending request carries no changed_scene_ids.
C29_Witness ==
    /\ lastCall.op = "confirm"
    /\ FirstTime
    /\ state.phase = "running"
    /\ \E t \in Slots :
          /\ tasks[t].kind = "confirm"
          /\ tasks[t].pc = "request"
          /\ tasks[t].body # None
          /\ tasks[t].body[1].changed_scene_ids = None

\* The text, image_prompt and duration_sec of a scene.
Content(s) == Body(s.text, s.image_prompt, s.duration_sec)

\* The index and the direction of the moveScene of this step.
MoveIndex == lastCall'.arg[1][1]
MoveTarget == lastCall'.arg[1][1] + lastCall'.arg[1][2]

\* C30: after every moveScene the scene at position i, counted from 0, has
\* scene_id i + 1; a move whose target is out of range changes nothing; a
\* move in range exchanges the text, image_prompt and duration_sec of the
\* two positions and leaves those of every other position as they were.
C30_MoveRenumbers ==
    [][lastCall'.op = "moveScene"
         => /\ Len(scenes') = Len(scenes)
            /\ \A i \in 0..(Len(scenes') - 1) : scenes'[i + 1].scene_id = i + 1
            /\ (MoveTarget < 0 \/ MoveTarget >= Len(scenes)) => scenes' = scenes
            /\ MoveTarget \in 0..(Len(scenes) - 1)
                 => \A i \in 0..(Len(scenes) - 1) :
                       Content(scenes'[i + 1])
                         = Content(scenes[IF i = MoveIndex THEN MoveTarget + 1
                                          ELSE IF i = MoveTarget THEN MoveIndex + 1
                                          ELSE i + 1])]_vars

\* A scene has been moved up to the first row: it has scene_id 1 and the
\* body the second scene of the script had, which differs from the first.
C30_Witness ==
    /\ lastCall.op = "moveScene"
    /\ Len(scenes) >= 2
    /\ scenes[1].scene_id = 1
    /\ Content(scenes[1]) = Content(state.script[1].scenes[2])
    /\ Content(scenes[1]) # Content(state.script[1].scenes[1])
    /\ Content(scenes[2]) = Content(state.script[1].scenes[1])

\* C31: whenever transitions is non-null the Session has a script and the
\* number of transitions is the number of its scenes minus one.
C31_TransitionsFitScript ==
    state.transitions # None
      => /\ state.script # None
         /\ Len(state.transitions[1]) = Len(state.script[1].scenes) - 1

\* A finalized run of MaxCuts scenes is back in cuts_review after the edited
\* script was confirmed, and holds its transitions.
C31_Witness ==
    /\ state.transitions # None
    /\ state.phase = "cuts_review"
    /\ state.script # None
    /\ Len(state.script[1].scenes) = MaxCuts
    /\ state.script[1] \notin CutsScripts

\* C32: cuts review entered again by go-to-cuts after a compose presents the
\* composed image order. Under OrderSpec videos exist only after a compose,
\* and every composed order differs from the order of the images, so the
\* order presented is not that of the images.
C32_ComposedOrderShown ==
    (/\ lastCall.op = "goToCutsReview"
     /\ CutsPreview
     /\ Settled
     /\ state.videos # None)
      => imageOrder # IdentityOrder(state.images[1])

\* The read of this step hands the regenerateVoices of slot t its
\* voices-ready record.
VoicesDelivered(t) ==
    /\ lastCall'.op = "read"
    /\ ReadSlot = t
    /\ tasks[t].kind = "regenerateVoices"
    /\ FirstTerminal("regenerateVoices", Decoded(ReadLines)) # None
    /\ FirstTerminal("regenerateVoices", Decoded(ReadLines))[1].status = "voices_ready"

\* C33: regenerateVoices in a Session with a run shows composing and issues
\* the voice request with the given data; its voices-ready record replaces
\* voices with the delivered set and shows voices_review, and changes no
\* other field than progress, which it clears.
C33_VoicesReplaced ==
    [][/\ lastCall'.op = "regenerateVoices" /\ state.runId # None
            => /\ state' = [state EXCEPT !.phase = "composing", !.progress = None]
               /\ \E t \in Slots :
                     /\ tasks[t] = NoTask
                     /\ tasks'[t] = NewTask("regenerateVoices", state.runId[1],
                                            None, lastCall'.arg)
       /\ \A t \in Slots :
            VoicesDelivered(t)
              => state' = [state EXCEPT
                              !.phase = "voices_review",
                              !.voices = Some(FirstTerminal("regenerateVoices",
                                                            Decoded(ReadLines))[1].voices),
                              !.progress = None]]_vars

\* The regenerated voices have replaced those of the restored run, whose
\* script, images and videos are as restored.
C33_Witness ==
    /\ lastCall.op = "read"
    /\ state.phase = "voices_review"
    /\ state.voices = Some([i \in 1..MaxScenes |-> VoiceClip(i, "g2")])
    /\ state.script # None /\ state.images # None /\ state.videos # None

\* The step hands the start of slot t the successful answer of the script
\* request.
ScriptAnswered(t) ==
    /\ StepOf(t)
    /\ tasks[t].kind = "start"
    /\ tasks[t].pc = "request"
    /\ state'.phase = "script_review"

\* C34: start cancels every open stream and replaces the Session by the
\* empty one in running; the successful answer of its script request leaves
\* script_review with the runId and the script of the answer, every other
\* field null, and the call ended with no stream opened.
C34_StartGivesFreshSession ==
    [][/\ lastCall'.op = "start"
            => /\ state' = [INITIAL_STATE EXCEPT !.phase = "running"]
               /\ \A t \in LiveStreams : tasks'[t].aborted
       /\ \A t \in Slots :
            ScriptAnswered(t)
              => /\ state'.runId \in {Some(r) : r \in RunIds}
                 /\ state'.script \in {Some(sc) : sc \in ServerScripts}
                 /\ state' = [INITIAL_STATE EXCEPT !.phase = "script_review",
                                                   !.runId = state'.runId,
                                                   !.script = state'.script]
                 /\ tasks'[t] = NoTask]_vars

\* ------------------------------------------------- answered requests
\* The page with every request answered and every opened stream delivering
\* a record that ends it: no stream is closed by the server before that.

\* The request of the call in slot t is answered: with a failure, with the
\* script, with the stored run, or with the go-ahead to open the stream.
Responded(t) ==
    \/ \E m \in Failures : fetchFailed(t, m)
    \/ \E r \in RunIds, sc \in ServerScripts : startResponse(t, r, sc)
    \/ \E k \in 0..5 : restoreResponse(t, Bundle(tasks[t].runId, k))
    \/ connectSSE(t)

\* The connection of slot t is opened or refused.
Connected(t) ==
    \/ streamOpened(t)
    \/ tasks[t].pc = "connect" /\ \E m \in Failures : streamThrows(t, m)

\* The stream of slot t delivers a record that ends it.
Delivered(t) ==
    /\ tasks[t].pc = "read"
    /\ \E d \in Records : Terminal(tasks[t].kind, d) /\ onRecord(t, d)

LiveNext ==
    \/ state.phase = "idle" /\ start
    \/ state.phase = "idle" /\ \E r \in RunIds : restoreFromHistory(r)
    \/ ScriptPreview /\ \E e \in FinalizeEdits(state.script[1]) : confirm(e)
    \/ CutsPreview /\ compose(IdentityOrder(state.images[1]))
    \/ CutsPreview /\ \E i \in Instructions : regenerateImage(i)
    \/ VideosPreview /\ generateVoices
    \/ VideosPreview /\ \E i \in Instructions : regenerateVideo(i)
    \/ VoicesPreview /\ goToTransitionEdit
    \/ VoicesPreview /\ \E d \in VoiceEdits : regenerateVoices(d)
    \/ TransitionEditor /\ finalize(PageTransitions(state.script[1]), None)
    \/ VideoPreview /\ state.script # None /\ goToScriptReview
    \/ /\ \/ ScriptPreview \/ CutsPreview \/ VideosPreview \/ VoicesPreview
          \/ TransitionEditor \/ VideoPreview \/ ErrorPanel
       /\ reset
    \/ \E t \in Slots : Responded(t)
    \/ \E t \in Slots : Connected(t)
    \/ \E t \in Slots : Delivered(t)
    \/ \E t \in Slots, d \in Records : onRecord(t, d)
    \/ \E t \in Slots, m \in Failures : streamThrows(t, m)
    \/ leftOpenClosed

LiveSpec ==
    /\ Init
    /\ [][LiveNext]_vars
    /\ \A t \in Slots :
          /\ WF_vars(Responded(t))
          /\ WF_vars(Connected(t))
          /\ WF_vars(Delivered(t))

Working == state.phase \in {"running", "composing", "finalizing"}

\* C35: with every request answered and every opened stream delivering a
\* record that ends it, a Session in running, composing or finalizing
\* eventually shows a review phase, complete, error or idle.
C35_InProgressEnds ==
    Working ~> state.phase \in {"script_review", "cuts_review", "videos_review",
                                   "voices_review", "complete", "error", "idle"}

\* The final stage of a run has completed: the Session was in finalizing and
\* shows the final video.
C35_Witness ==
    /\ state.phase = "complete"
    /\ state.transitions # None
    /\ state.videoUrl # None
    /\ \A t \in Slots : tasks[t] = NoTask

\* ---------------------------------------------------- closed streams
\* A streamed action reading its stream: reads of one line each, whole or
\* cut, and the close of the stream by the server; no read fails.
CloseNext ==
    \/ \E t \in Slots, c \in {x \in Chunks : Len(x.lines) = 1} : onChunk(t, c)
    \/ \E t \in Slots : streamClosed(t)
    \/ leftOpenClosed

CloseSpec == StreamInit /\ [][CloseNext]_vars

\* C36: the close of a stream that is still being read, having delivered no
\* terminal record, ends the call and leaves the Session as it was, in its
\* in-progress phase and with no error; with no call pending no later step
\* but a call of the hook changes the Session.
C36_ClosedStreamIsSilent ==
    [][/\ \A t \in Slots :
            StepOf(t) /\ tasks[t].pc = "read"
              => /\ state' = state
                 /\ state'.phase \in {"running", "composing", "finalizing"}
                 /\ state'.error = None
                 /\ tasks'[t] = NoTask
       /\ (\A t \in Slots : tasks[t] = NoTask) /\ lastCall'.op \in {"none", "read"}
            => state' = state]_vars

\* The server has closed a stream that had delivered progress only: no call
\* is pending and the Session still shows its in-progress phase.
C36_Witness ==
    /\ lastCall = [op |-> "none", arg |-> Some(1)]
    /\ \A t \in Slots : tasks[t] = NoTask
    /\ state.phase \in {"running", "composing", "finalizing"}
    /\ state.progress # None
    /\ state.error = None

\* A step of a streamed action that has not succeeded: its call, which
\* issues the stage-start request; a continuation that leaves the call
\* pending; or the continuation that ends it in error.
Unsucceeded ==
    \E t \in Slots :
        \/ tasks[t] = NoTask /\ tasks'[t] # NoTask /\ tasks'[t].kind \in Streamed
        \/ /\ StepOf(t)
           /\ tasks[t].kind \in Streamed
           /\ tasks'[t] # NoTask \/ state'.phase = "error"

\* The step leaves every field of the Session outside F as it was.
OnlyChanges(F) == \A f \in (DOMAIN state) \ F : state'[f] = state[f]

\* C37 as stated: from its call to its failure a streamed action changes
\* phase, error and progress only.
C37_FailureChangesPhaseOnly ==
    [][Unsucceeded => OnlyChanges({"phase", "error", "progress"})]_vars

\* C37, amended: from its call to its failure a streamed action leaves
\* runId, script, baseline script, images, videos, voices and videoUrl as
\* they were; it changes phase, error and progress, and the call of
\* finalize also stores the transitions it is given.
C37_FailureKeepsArtifacts ==
    [][Unsucceeded
         => /\ OnlyChanges({"phase", "error", "progress", "transitions"})
            /\ state'.transitions # state.transitions => lastCall'.op = "finalize"]_vars

\* A streamed action has failed in a Session that has a run, a script and
\* images: they are still there.
C37_Witness ==
    /\ state.phase = "error"
    /\ state.error # None
    /\ lastCall.op = "none"
    /\ state.runId # None
    /\ state.script # None
    /\ state.images # None

\* C38: in every reachable state of the page script_review has a script,
\* cuts_review a script and images, videos_review videos, voices_review
\* voices and transition_edit a script.
C38_PhaseHasItsArtifacts ==
    /\ state.phase = "script_review" => state.script # None
    /\ state.phase = "cuts_review" => state.script # None /\ state.images # None
    /\ state.phase = "videos_review" => state.videos # None
    /\ state.phase = "voices_review" => state.voices # None
    /\ state.phase = "transition_edit" => state.script # None

\* C39: in every reachable state a phase other than idle, running and error
\* has a runId.
C39_PhaseHasRun ==
    state.phase \notin {"idle", "running", "error"} => state.runId # None

\* A stage of an identified run is in progress: composing or finalizing
\* with its runId.
C39_Witness ==
    /\ state.phase \in {"composing", "finalizing"}
    /\ state.runId # None
    /\ \E t \in Slots : tasks[t].pc = "read" /\ tasks[t].runId = state.runId[1]

\* The step applies the images-ready record of the confirm or the
\* regenerateImage of slot t.
ImagesApplied(t) ==
    /\ StepOf(t)
    /\ tasks[t].kind \in {"confirm", "regenerateImage"}
    /\ tasks[t].pc = "read"
    /\ state'.phase = "cuts_review"

\* C40: the images-ready record of a confirm or a regenerateImage stores
\* the delivered images and leaves videos, voices and videoUrl as they were.
C40_DownstreamKept ==
    [][\A t \in Slots :
          ImagesApplied(t)
            => /\ state'.images \in {Some(i) : i \in ImageSets}
               /\ state'.videos = state.videos
               /\ state'.voices = state.voices
               /\ state'.videoUrl = state.videoUrl]_vars

\* New images have been stored in a Session that holds videos, voices and a
\* final video made before.
C40_Witness ==
    /\ lastCall.op = "none"
    /\ state.phase = "cuts_review"
    /\ state.images \in {Some(i) : i \in ImageSets}
    /\ state.videos # None
    /\ state.voices # None
    /\ state.videoUrl # None

====
